---- MODULE Spec2Model ----
(***************************************************************************)
(* TriperoClient (src/src/client/TriperoClient.ts) as a state machine.     *)
(*                                                                         *)
(* The client owns two ioredis connections (publisher, subscriber), two    *)
(* flags (isConnected, isSubscribed) and a handler registry.  Every async  *)
(* method is split at its await points: the step that runs up to the first *)
(* await, and one step per continuation, taken when the awaited transport  *)
(* promise resolves or rejects.  Calls that are suspended at an await sit  *)
(* in `calls`; any other operation may run in between.                     *)
(*                                                                         *)
(* Strings that the code concatenates or slices (channel names, the key    *)
(* prefix) are sequences of characters or of chunks.  JavaScript values    *)
(* are tagged records; JSON.stringify is modelled by what reaches the wire.*)
(***************************************************************************)
EXTENDS Integers, Sequences, FiniteSets, TLC

VARIABLES
  throwOnError,   \* this.options.options.throwOnError
  keyPrefix,      \* this.keyPrefix
  publisher,      \* this.publisher: NULL or a connection id
  subscriber,     \* this.subscriber: NULL or a connection id
  isConnected,    \* this.isConnected
  isSubscribed,   \* this.isSubscribed
  handlers,       \* this.handlers: Map<eventType, Set<handler>>
  conns,          \* the ioredis connections created so far
  calls,          \* async calls suspended at an await
  wire,           \* the last message publishPosition handed to the transport,
                  \* and the connections it has yet to reach
  ev,             \* what the last step did: logs, transport commands, outcome
  pf,             \* scratch record of the pure-function specifications
  redis,          \* this.options.redis: host, port, db
  http,           \* the http option, this.httpClient and its request in flight
  mod             \* the NestJS container around a TriperoService

vars == <<throwOnError, keyPrefix, publisher, subscriber, isConnected,
          isSubscribed, handlers, conns, calls, wire, ev, pf, redis, http, mod>>

----------------------------------------------------------------------------
(* Bounds of the model *)

MaxCalls == 2        \* async calls suspended at the same time
MaxConns == 3        \* connections that exist at the same time
MaxListeners == 2    \* 'message' listeners installed on one connection
MaxLen == 2          \* length of the strings of the prefix specification
MaxRequests == 2     \* HTTP requests in flight at the same time
MaxIds == 3          \* elements of a device-identifier list

NULL == 0
ConnIds == 1..MaxConns
Slots == 1..MaxCalls
Requests == 1..MaxRequests

----------------------------------------------------------------------------
(* Constants of the program *)

DEFAULT_REDIS_KEY_PREFIX == <<"tripero:">>
DEFAULT_THROW_ON_ERROR == FALSE
POSITION_NEW == <<"position:new">>
IGNITION_CHANGED == <<"ignition:changed">>
TRIP_STARTED == <<"trip:started">>

\* The event types handlers are registered for in this model.
EventTypes == {POSITION_NEW, TRIP_STARTED}

----------------------------------------------------------------------------
(* JavaScript values and JSON *)

Num(n) == [t |-> "number", n |-> n]
NaN == [t |-> "NaN"]
Str(s) == [t |-> "string", s |-> s]
Bool(b) == [t |-> "boolean", b |-> b]
Null == [t |-> "null"]
Undefined == [t |-> "undefined"]
Obj(f) == [t |-> "object", f |-> f]

\* What JSON.stringify writes for a value: a non-finite number becomes null, a
\* property whose value is undefined is left out, objects are walked.
RECURSIVE toJSON(_)
toJSON(v) ==
  CASE v.t = "NaN" -> Null
    [] v.t = "object" ->
         Obj([k \in {x \in DOMAIN v.f : v.f[x].t # "undefined"} |-> toJSON(v.f[k])])
    [] OTHER -> v

\* A message on the wire: the text of a JSON document, or text that is no JSON.
JSONstringify(v) == [text |-> "json", doc |-> toJSON(v)]
Malformed == [text |-> "malformed"]
NoMessage == [text |-> "none"]

\* JSON.parse throws a SyntaxError on text that is no JSON document.
JSONparseThrows(m) == m.text # "json"
JSONparse(m) == m.doc

PosFull ==
  Obj([deviceId |-> Str("VEHICLE-001"), timestamp |-> Num(1700000000),
       latitude |-> Num(-34), longitude |-> Num(-58), speed |-> Num(45),
       ignition |-> Bool(TRUE), metadata |-> Obj([tenant_id |-> Str("acme")])])
PosNaN ==
  Obj([deviceId |-> Str("VEHICLE-001"), timestamp |-> Num(1700000000),
       latitude |-> Num(-34), longitude |-> Num(-58), speed |-> NaN])
PosUndefined ==
  Obj([deviceId |-> Str("VEHICLE-001"), timestamp |-> Num(1700000000),
       latitude |-> Num(-34), longitude |-> Num(-58), speed |-> Num(0),
       heading |-> Undefined])
Positions == {PosFull, PosNaN, PosUndefined}

IgnitionOn ==
  Obj([deviceId |-> Str("VEHICLE-001"), timestamp |-> Num(1700000000),
       ignition |-> Bool(TRUE), latitude |-> Num(-34), longitude |-> Num(-58)])
IgnitionEvents == {IgnitionOn}

TripStartedEvent ==
  Obj([tripId |-> Str("trip-1"), deviceId |-> Str("VEHICLE-001"),
       startTime |-> Str("2024-01-01T00:00:00.000Z")])

\* Batches handed to publishPositions.
Batches == {<<>>, <<PosFull, PosNaN>>}

\* What the remote service sends: an event, or text that is no JSON.
RemoteMessages == {JSONstringify(TripStartedEvent), Malformed}

----------------------------------------------------------------------------
(* Handlers *)

HandlerIds == {"h1", "h2"}

\* The registrations the callers of this model make with on (and undo with off).
Registrations == {<<POSITION_NEW, "h1">>, <<POSITION_NEW, "h2">>, <<TRIP_STARTED, "h1">>}

\* What the callback does when it is invoked: it returns, it throws, it calls
\* on() or off() of the client for the event type it handles, or it is an async
\* function and returns a promise that settles later.
Behaviour(h) ==
  CASE h = "h2" -> "throws"
    [] h = "h3" -> "registers"
    [] h = "h4" -> "removes"
    [] h = "h5" -> "async"
    [] OTHER -> "returns"

NoEntry == [has |-> FALSE, set |-> <<>>]

Range(s) == {s[i] : i \in 1..Len(s)}

RECURSIVE Without(_, _)
Without(s, x) ==
  IF s = <<>> THEN <<>>
  ELSE IF Head(s) = x THEN Without(Tail(s), x)
  ELSE <<Head(s)>> \o Without(Tail(s), x)

----------------------------------------------------------------------------
(* The record of a step *)

Log(level, msg) == [level |-> level, msg |-> msg]

\* An Error object: its name and what its message is made of.
Err(name, message) == [name |-> name, message |-> message]
NoError == [name |-> "none"]

\* The error of a transport command that failed.
TransportError == Err("Error", [text |-> "Connection is closed."])

\* What a call returned, when the model looks at it.
NoResult == [status |-> "none"]

\* The awaited promise whose settling a continuation step runs on.
Settled(await, how, value) == [await |-> await, how |-> how, value |-> value]
NoSettle == [await |-> "none", how |-> "none"]

\* No HTTP request is in this slot: nothing awaited, no timer armed.
NoRequest ==
  [pc |-> "idle", op |-> "none", method |-> "none", url |-> <<>>, elapsed |-> 0,
   status |-> 0, armed |-> FALSE]

\* A command handed to a connection of the transport.
Cmd(conn, cmd, arg) == [conn |-> conn, cmd |-> cmd, arg |-> arg]

Pre == [isConnected |-> isConnected, isSubscribed |-> isSubscribed,
        publisher |-> publisher, subscriber |-> subscriber]

Event(op, kind, outcome, logs, cmds) ==
  [op |-> op, kind |-> kind, outcome |-> outcome, logs |-> logs, cmds |-> cmds,
   pre |-> Pre, listened |-> NULL, conn |-> NULL, channel |-> <<>>,
   message |-> NoMessage, sent |-> Undefined, invoked |-> <<>>, afterBad |-> FALSE,
   error |-> NoError, req |-> [pc |-> "idle"], settled |-> NoSettle, result |-> NoResult,
   began |-> <<>>]

\* Nothing of this client is on its way to a subscriber.
NoWire == [op |-> "none", channel |-> <<>>, message |-> NoMessage, data |-> Undefined,
           to |-> {}]

\* The server hands a published message to the connections that are subscribed
\* to its channel when it is published, once each.
SubscribedTo(prefixedChannel) ==
  {i \in ConnIds : conns[i].status = "ready" /\ prefixedChannel \in conns[i].subs}

\* The message reached the connection, or the connection left the channel.
Reached(w, i) == IF w.to \ {i} = {} THEN NoWire ELSE [w EXCEPT !.to = @ \ {i}]

NoCall == [op |-> "idle", pc |-> "idle", conn |-> NULL, arg |-> {}]
Call(op, pc, conn, arg) == [op |-> op, pc |-> pc, conn |-> conn, arg |-> arg]

HasFree == \E c \in Slots : calls[c].op = "idle"
FreeSlot == CHOOSE c \in Slots : calls[c].op = "idle" /\ \A d \in Slots : calls[d].op = "idle" => c <= d

NewConn == [status |-> "connecting", listeners |-> 0, subs |-> {}]
NoConn == [status |-> "none", listeners |-> 0, subs |-> {}]

\* `new Redis(...)` names the new connection by the lowest id that names no
\* connection any more: one never created, or one that was closed by quit and
\* that neither the client nor a suspended call still refers to.
Referenced(i) ==
  \/ publisher = i
  \/ subscriber = i
  \/ \E c \in Slots : calls[c].conn = i
Reusable(i) == conns[i].status \in {"none", "quit"} /\ ~Referenced(i)
CanOpen == \E i \in ConnIds : Reusable(i)
FreshConn == CHOOSE i \in ConnIds : Reusable(i) /\ \A j \in ConnIds : Reusable(j) => i <= j

\* A connection that the client dropped (connect() overwrote the field, or
\* disconnect() set it to null) and that no suspended call holds can only be
\* observed through a "message" listener on it while it is open and subscribed
\* to a channel.  Any other
\* dropped connection is gone: its id names no connection any more.
Collected(cs, p, s, cl) ==
  [i \in ConnIds |->
     IF \/ p = i
        \/ s = i
        \/ \E c \in Slots : cl[c].conn = i
        \/ cs[i].status = "ready" /\ cs[i].listeners > 0 /\ cs[i].subs # {}
     THEN cs[i]
     ELSE NoConn]

----------------------------------------------------------------------------
(* Private helpers of the client *)

\* A key prefix resolved with `||`: the empty string gives way to the default.
ResolveKeyPrefixOr(opt) ==
  IF opt.given /\ opt.value # <<>> THEN opt.value ELSE DEFAULT_REDIS_KEY_PREFIX

\* constructor: keyPrefix = options.redis.keyPrefix ?? DEFAULTS.REDIS_KEY_PREFIX
ResolveKeyPrefix(opt) == IF opt.given THEN opt.value ELSE DEFAULT_REDIS_KEY_PREFIX
\* constructor: throwOnError = options.options?.throwOnError ?? DEFAULTS.THROW_ON_ERROR
ResolveThrowOnError(opt) == IF opt.given THEN opt.value ELSE DEFAULT_THROW_ON_ERROR

prefixChannel(channel) == keyPrefix \o channel

startsWith(s, p) == Len(p) <= Len(s) /\ SubSeq(s, 1, Len(p)) = p

slice(s, n) == SubSeq(s, n + 1, Len(s))

\* unprefixChannel that cuts the length of the default prefix off every name.
unprefixChannelFixedLength(channel) == slice(channel, Len(DEFAULT_REDIS_KEY_PREFIX))

unprefixChannel(channel) ==
  IF keyPrefix # <<>> /\ startsWith(channel, keyPrefix)
  THEN slice(channel, Len(keyPrefix))
  ELSE channel

\* handleError that only logs.
handleErrorSwallows == FALSE

\* handleError: logs, and throws when throwOnError is set.
handleErrorThrows == throwOnError

\* The guard of publish and publishPositions.
NotConnected == publisher = NULL \/ ~isConnected

\* The outcome of a publish operation whose error went through handleError.
AfterHandleError == IF handleErrorThrows THEN "rejected" ELSE "resolved"

\* A publish that wraps the event in an envelope object.
SerializeWrapped(data) == JSONstringify(Obj([data |-> data]))

\* What JSON.stringify(data) hands to the transport in publish/publishPositions.
Serialize(data) == JSONstringify(data)

\* A lookup that ignores the channel and returns every registered handler.
handlersForAnyChannel(channel) ==
  handlers[POSITION_NEW].set \o handlers[TRIP_STARTED].set

\* this.handlers.get(channel): the Set registered under the key, or nothing.
handlersFor(channel) ==
  IF channel \in DOMAIN handlers /\ handlers[channel].has
  THEN handlers[channel].set
  ELSE <<>>

\* A loop with one try/catch around it: the first throw ends it.
RECURSIVE InvokeUntilThrow(_, _, _)
InvokeUntilThrow(hs, event, channel) ==
  IF hs = <<>> THEN [invoked |-> <<>>, logs |-> <<>>]
  ELSE LET h == Head(hs)
           rest == IF Behaviour(h) = "throws"
                   THEN [invoked |-> <<>>, logs |-> <<Log("error", "Error en handler")>>]
                   ELSE InvokeUntilThrow(Tail(hs), event, channel)
       IN [invoked |-> <<[handler |-> h, event |-> event]>> \o rest.invoked,
           logs |-> rest.logs]

\* The for-loop of handleMessage over the Set, in insertion order: each handler
\* is called inside its own try/catch, a throw is logged and the loop goes on.
RECURSIVE InvokeAll(_, _, _)
InvokeAll(hs, event, channel) ==
  IF hs = <<>> THEN [invoked |-> <<>>, logs |-> <<>>]
  ELSE LET rest == InvokeAll(Tail(hs), event, channel)
           h == Head(hs)
       IN [invoked |-> <<[handler |-> h, event |-> event]>> \o rest.invoked,
           logs |-> (IF Behaviour(h) = "throws"
                     THEN <<Log("error", "Error en handler")>>
                     ELSE <<>>) \o rest.logs]

\* A dispatch that hands undefined to the handlers when the payload is no JSON.
DispatchUnparsed(hs, message, channel) ==
  IF JSONparseThrows(message)
  THEN InvokeAll(hs, Undefined, channel)
  ELSE InvokeAll(hs, JSONparse(message), channel)

\* The outer try of handleMessage: parse, then fan out; a parse error is logged.
Dispatch(hs, message, channel) ==
  IF JSONparseThrows(message)
  THEN [invoked |-> <<>>, logs |-> <<Log("error", "Error parseando mensaje")>>]
  ELSE InvokeAll(hs, JSONparse(message), channel)

\* handleMessage(prefixedChannel, message): what one listener call does.
handleMessage(prefixedChannel, message) ==
  LET channel == unprefixChannel(prefixedChannel)
      hs == handlersFor(channel)
  IN IF hs = <<>>
     THEN [invoked |-> <<>>, logs |-> <<>>]
     ELSE Dispatch(hs, message, channel)

\* connect and subscribe without their early return.
NeverAlreadyConnected == FALSE
NeverAlreadySubscribed == FALSE

\* The guards of connect and subscribe.
AlreadyConnected == isConnected
AlreadySubscribed == isSubscribed
SubscribeNotConnected == subscriber = NULL \/ ~isConnected

\* Array.from(this.handlers.keys()): the keys of the Map.
SubscribeChannels == {e \in EventTypes : handlers[e].has}

----------------------------------------------------------------------------
(* Initial state: a constructed client *)

\* An option of TriperoClientOptions: left out, or given with a value.
Omitted == [given |-> FALSE]
Given(v) == [given |-> TRUE, value |-> v]

KeyPrefixOptions == {Omitted, Given(<<>>)}
ThrowOnErrorOptions == {Omitted, Given(TRUE)}

DEFAULT_REDIS_HOST == "localhost"
DEFAULT_REDIS_PORT == 6379
DEFAULT_REDIS_DB == 0
DEFAULT_HTTP_TIMEOUT == 10000

\* constructor: host, port and db of options.redis, each `?? DEFAULTS.*`.
ResolveRedis(o) ==
  [options |-> o,
   host |-> IF o.host.given THEN o.host.value ELSE DEFAULT_REDIS_HOST,
   port |-> IF o.port.given THEN o.port.value ELSE DEFAULT_REDIS_PORT,
   db |-> IF o.db.given THEN o.db.value ELSE DEFAULT_REDIS_DB]
RedisOmitted == [host |-> Omitted, port |-> Omitted, db |-> Omitted]

\* options.baseUrl.replace(/\/$/, ''): one trailing slash is removed.
RemoveTrailingSlash(url) ==
  IF Len(url) > 0 /\ url[Len(url)] = "/" THEN SubSeq(url, 1, Len(url) - 1) ELSE url

\* new TriperoHttpClient(options, logger)
NoHttpClient == [built |-> FALSE]
TriperoHttpClient(options) ==
  [built |-> TRUE,
   baseUrl |-> RemoveTrailingSlash(options.baseUrl),
   timeout |-> IF options.timeout.given THEN options.timeout.value
               ELSE DEFAULT_HTTP_TIMEOUT]

\* The constructor of TriperoClient hands options.http to the constructor of
\* TriperoHttpClient whether or not it was given; reading `baseUrl` of
\* undefined throws a TypeError, and so does the constructor of the client.
ConstructorThrows(httpOption) == ~httpOption.given

\* The http part of a client after `new TriperoClient(options)`.
NewHttp(httpOption) ==
  [options |-> httpOption,
   constructed |-> IF ConstructorThrows(httpOption) THEN "threw" ELSE "ok",
   httpClient |-> IF ConstructorThrows(httpOption) THEN NoHttpClient
                  ELSE TriperoHttpClient(httpOption.value),
   reqs |-> [r \in Requests |-> NoRequest]]

BaseUrl == <<"http://tripero-service:3001">>
PlainHttp == [baseUrl |-> BaseUrl, timeout |-> Omitted]

\* A client that no container manages.
NoModule ==
  [mode |-> "none", stage |-> "none", ready |-> FALSE, destroyed |-> 0, consumerDestroyed |-> 0]

\* The client of the specifications that are about the transport: default
\* host, port and db, an http option with a base URL, no container.
PlainInit ==
  /\ redis = ResolveRedis(RedisOmitted)
  /\ http = NewHttp(Given(PlainHttp))
  /\ mod = NoModule

ClientInit ==
  /\ publisher = NULL
  /\ subscriber = NULL
  /\ isConnected = FALSE
  /\ isSubscribed = FALSE
  /\ handlers = [e \in EventTypes |-> NoEntry]
  /\ conns = [i \in ConnIds |-> NoConn]
  /\ calls = [c \in Slots |-> NoCall]
  /\ wire = NoWire
  /\ ev = Event("new", "init", "resolved", <<>>, <<>>)

Init ==
  /\ \E opt \in ThrowOnErrorOptions : throwOnError = ResolveThrowOnError(opt)
  /\ \E opt \in KeyPrefixOptions : keyPrefix = ResolveKeyPrefix(opt)
  /\ pf = [stage |-> "idle", name |-> <<>>, text |-> <<>>]
  /\ PlainInit
  /\ ClientInit

\* The options of the client, and with them the container it may live in.
settings == <<throwOnError, keyPrefix, pf, redis, http>>
config == <<settings, mod>>

----------------------------------------------------------------------------
(* connect *)

connect ==
  \/ /\ AlreadyConnected
     /\ ev' = Event("connect", "call", "resolved", <<Log("warn", "Ya conectado a Redis")>>, <<>>)
     /\ UNCHANGED <<publisher, subscriber, isConnected, isSubscribed, handlers,
                    conns, calls, wire, settings>>
  \/ /\ ~AlreadyConnected
     /\ HasFree
     /\ CanOpen
     /\ publisher' = FreshConn
     /\ calls' = [calls EXCEPT ![FreeSlot] = Call("connect", "publisher.connect", FreshConn, {})]
     /\ conns' = Collected([conns EXCEPT ![FreshConn] = NewConn], publisher', subscriber, calls')
     /\ ev' = Event("connect", "call", "pending", <<>>, <<Cmd(FreshConn, "connect", {})>>)
     /\ UNCHANGED <<subscriber, isConnected, isSubscribed, handlers, wire, settings>>

\* connect() called by the application itself.
Connect == connect /\ UNCHANGED mod

\* await this.publisher.connect() resolved: create and connect the subscriber.
\* A connect that uses the publisher connection to subscribe as well.
ConnectSharesConnection(c) ==
  /\ calls[c].op = "connect" /\ calls[c].pc = "publisher.connect"
  /\ conns[calls[c].conn].status = "connecting"
  /\ subscriber' = publisher
  /\ calls' = [calls EXCEPT ![c] = NoCall]
  /\ conns' = [conns EXCEPT ![calls[c].conn].status = "ready"]
  /\ isConnected' = TRUE
  /\ ev' = Event("connect", "resume", "resolved", <<Log("info", "Conectado a Redis")>>, <<>>)
  /\ UNCHANGED <<publisher, isSubscribed, handlers, wire, config>>

ConnectPublisherReady(c) ==
  /\ calls[c].op = "connect" /\ calls[c].pc = "publisher.connect"
  /\ conns[calls[c].conn].status = "connecting"
  /\ CanOpen
  /\ subscriber' = FreshConn
  /\ calls' = [calls EXCEPT ![c] = Call("connect", "subscriber.connect", FreshConn, {})]
  /\ conns' = Collected([conns EXCEPT ![calls[c].conn].status = "ready", ![FreshConn] = NewConn],
                        publisher, subscriber', calls')
  /\ ev' = Event("connect", "resume", "pending", <<>>, <<Cmd(FreshConn, "connect", {})>>)
  /\ UNCHANGED <<publisher, isConnected, isSubscribed, handlers, wire, config>>

\* await this.subscriber.connect() resolved.
connectResolves(c) ==
  /\ calls[c].op = "connect" /\ calls[c].pc = "subscriber.connect"
  /\ conns[calls[c].conn].status = "connecting"
  /\ calls' = [calls EXCEPT ![c] = NoCall]
  /\ conns' = Collected([conns EXCEPT ![calls[c].conn].status = "ready"],
                        publisher, subscriber, calls')
  /\ isConnected' = TRUE
  /\ ev' = Event("connect", "resume", "resolved", <<Log("info", "Conectado a Redis")>>, <<>>)
  /\ UNCHANGED <<publisher, subscriber, isSubscribed, handlers, wire, settings>>

\* The same, outside a container.
ConnectSubscriberReady(c) == connectResolves(c) /\ UNCHANGED mod

\* A catch block of connect() that leaves the error to handleError.
connectNeverRethrows == FALSE

\* The catch block of connect() ends with `throw error`.
connectRethrows == TRUE

\* Either connect() promise rejected: catch, handleError, then `throw error`.
connectRejects(c) ==
  /\ calls[c].op = "connect"
  /\ conns[calls[c].conn].status \in {"connecting", "quit"}
  /\ calls' = [calls EXCEPT ![c] = NoCall]
  /\ conns' = Collected([conns EXCEPT ![calls[c].conn].status =
                           IF @ = "connecting" THEN "failed" ELSE @],
                        publisher, subscriber, calls')
  /\ ev' = [Event("connect", "resume",
                  IF handleErrorThrows \/ connectRethrows THEN "rejected" ELSE "resolved",
                  <<Log("error", "Error conectando a Redis")>>, <<>>)
            EXCEPT !.settled = Settled("connect", "rejected", TransportError),
                   !.error = IF handleErrorThrows \/ connectRethrows
                             THEN TransportError ELSE NoError]
  /\ UNCHANGED <<publisher, subscriber, isConnected, isSubscribed, handlers,
                 wire, settings>>

\* The same, outside a container.
ConnectFailed(c) == connectRejects(c) /\ UNCHANGED mod

----------------------------------------------------------------------------
(* disconnect *)

DisconnectFinished == <<Log("info", "Desconectado de Redis")>>

disconnect ==
  \/ /\ subscriber # NULL
     /\ HasFree
     /\ calls' = [calls EXCEPT ![FreeSlot] = Call("disconnect", "subscriber.quit", subscriber, {})]
     /\ ev' = Event("disconnect", "call", "pending", <<>>, <<Cmd(subscriber, "quit", {})>>)
     /\ UNCHANGED <<publisher, subscriber, isConnected, isSubscribed, handlers,
                    conns, wire, settings>>
  \/ /\ subscriber = NULL /\ publisher # NULL
     /\ HasFree
     /\ calls' = [calls EXCEPT ![FreeSlot] = Call("disconnect", "publisher.quit", publisher, {})]
     /\ ev' = Event("disconnect", "call", "pending", <<>>, <<Cmd(publisher, "quit", {})>>)
     /\ UNCHANGED <<publisher, subscriber, isConnected, isSubscribed, handlers,
                    conns, wire, settings>>
  \/ /\ subscriber = NULL /\ publisher = NULL
     /\ isConnected' = FALSE
     /\ isSubscribed' = FALSE
     /\ ev' = Event("disconnect", "call", "resolved", DisconnectFinished, <<>>)
     /\ UNCHANGED <<publisher, subscriber, handlers, conns, calls, wire, settings>>

\* disconnect() called by the application itself.
Disconnect == disconnect /\ UNCHANGED mod

\* quit() may be answered on a connection that is open, that is still being
\* opened, or whose connect() failed and that ioredis opened again since.
Quittable == {"connecting", "ready", "failed"}

\* quit() closes the connection: the server drops its subscriptions.
Closed(conn) == [status |-> "quit", listeners |-> 0, subs |-> {}]

\* await this.subscriber.quit() resolved: subscriber = null, then the publisher.
DisconnectSubscriberQuit(c) ==
  /\ calls[c].op = "disconnect" /\ calls[c].pc = "subscriber.quit"
  /\ conns[calls[c].conn].status \in Quittable
  /\ subscriber' = NULL
  /\ IF publisher # NULL
     THEN /\ calls' = [calls EXCEPT ![c] = Call("disconnect", "publisher.quit", publisher, {})]
          /\ ev' = Event("disconnect", "resume", "pending", <<>>, <<Cmd(publisher, "quit", {})>>)
          /\ UNCHANGED <<isConnected, isSubscribed>>
     ELSE /\ calls' = [calls EXCEPT ![c] = NoCall]
          /\ isConnected' = FALSE
          /\ isSubscribed' = FALSE
          /\ ev' = Event("disconnect", "resume", "resolved", DisconnectFinished, <<>>)
  /\ conns' = Collected([conns EXCEPT ![calls[c].conn] = Closed(@)], publisher, subscriber', calls')
  /\ wire' = Reached(wire, calls[c].conn)
  /\ UNCHANGED <<publisher, handlers, config>>

\* A disconnect that forgets the registered handlers as well.
DisconnectClearsHandlers(c) ==
  /\ calls[c].op = "disconnect" /\ calls[c].pc = "publisher.quit"
  /\ conns[calls[c].conn].status \in Quittable
  /\ publisher' = NULL
  /\ isConnected' = FALSE
  /\ isSubscribed' = FALSE
  /\ handlers' = [e \in EventTypes |-> NoEntry]
  /\ calls' = [calls EXCEPT ![c] = NoCall]
  /\ conns' = Collected([conns EXCEPT ![calls[c].conn] = Closed(@)], publisher', subscriber, calls')
  /\ wire' = Reached(wire, calls[c].conn)
  /\ ev' = Event("disconnect", "resume", "resolved", DisconnectFinished, <<>>)
  /\ UNCHANGED <<subscriber, config>>

\* await this.publisher.quit() resolved.
DisconnectPublisherQuit(c) ==
  /\ calls[c].op = "disconnect" /\ calls[c].pc = "publisher.quit"
  /\ conns[calls[c].conn].status \in Quittable
  /\ publisher' = NULL
  /\ isConnected' = FALSE
  /\ isSubscribed' = FALSE
  /\ calls' = [calls EXCEPT ![c] = NoCall]
  /\ conns' = Collected([conns EXCEPT ![calls[c].conn] = Closed(@)], publisher', subscriber, calls')
  /\ wire' = Reached(wire, calls[c].conn)
  /\ ev' = Event("disconnect", "resume", "resolved", DisconnectFinished, <<>>)
  /\ UNCHANGED <<subscriber, handlers, config>>

\* Either quit() promise rejected: disconnect has no try/catch, the call rejects.
DisconnectQuitFailed(c) ==
  /\ calls[c].op = "disconnect"
  /\ calls' = [calls EXCEPT ![c] = NoCall]
  /\ conns' = Collected(conns, publisher, subscriber, calls')
  /\ ev' = Event("disconnect", "resume", "rejected", <<>>, <<>>)
  /\ UNCHANGED <<publisher, subscriber, isConnected, isSubscribed, handlers,
                 wire, config>>

----------------------------------------------------------------------------
(* health *)

\* A guard that never takes the 'disconnected' branch.
healthNeverDisconnected == FALSE

\* `!this.publisher || !this.isConnected`
healthDisconnected == publisher = NULL \/ ~isConnected

\* The report of health(): the status and the host, port and db of the options.
HealthReport(status, error) ==
  [status |-> status,
   redis |-> [host |-> redis.host, port |-> redis.port, db |-> redis.db],
   error |-> error]

Health ==
  \/ /\ healthDisconnected
     /\ ev' = [Event("health", "call", "resolved", <<>>, <<>>)
               EXCEPT !.result = HealthReport("disconnected", NoError)]
     /\ UNCHANGED <<publisher, subscriber, isConnected, isSubscribed, handlers,
                    conns, calls, wire, config>>
  \/ /\ ~healthDisconnected
     /\ HasFree
     /\ calls' = [calls EXCEPT ![FreeSlot] = Call("health", "publisher.ping", publisher, {})]
     /\ ev' = Event("health", "call", "pending", <<>>, <<Cmd(publisher, "ping", {})>>)
     /\ UNCHANGED <<publisher, subscriber, isConnected, isSubscribed, handlers,
                    conns, wire, config>>

\* await this.publisher.ping() resolved.
HealthPong(c) ==
  /\ calls[c].op = "health"
  /\ conns[calls[c].conn].status = "ready"
  /\ calls' = [calls EXCEPT ![c] = NoCall]
  /\ ev' = [Event("health", "resume", "resolved", <<>>, <<>>)
            EXCEPT !.result = HealthReport("connected", NoError),
                   !.settled = Settled("ping", "resolved", "PONG")]
  /\ UNCHANGED <<publisher, subscriber, isConnected, isSubscribed, handlers,
                 conns, wire, config>>

\* await this.publisher.ping() rejected: the catch block reports the error.
HealthPingFailed(c) ==
  /\ calls[c].op = "health"
  /\ calls' = [calls EXCEPT ![c] = NoCall]
  /\ ev' = [Event("health", "resume", "resolved", <<>>, <<>>)
            EXCEPT !.result = HealthReport("error", TransportError),
                   !.settled = Settled("ping", "rejected", TransportError)]
  /\ UNCHANGED <<publisher, subscriber, isConnected, isSubscribed, handlers,
                 conns, wire, config>>

----------------------------------------------------------------------------
(* publishPosition, publishIgnitionEvent, publishPositions *)

NotConnectedLog == <<Log("error", "No conectado a Redis")>>

\* publishPosition and publishIgnitionEvent log "publicada" whenever publish()
\* returned, also when it returned after an error that handleError swallowed.
PublishedLog == IF handleErrorThrows THEN <<>> ELSE <<Log("debug", "publicada")>>

\* A publish that waits before it hands the command to the transport, and
\* hands it over when it is resumed.
PublishDeferred(op, logical, data) ==
  \/ /\ NotConnected
     /\ ev' = Event(op, "call", AfterHandleError, NotConnectedLog \o PublishedLog, <<>>)
     /\ UNCHANGED <<publisher, subscriber, isConnected, isSubscribed, handlers,
                    conns, calls, wire, config>>
  \/ /\ ~NotConnected
     /\ HasFree
     /\ calls' = [calls EXCEPT ![FreeSlot] = Call(op, "publish", publisher, {})]
     /\ ev' = Event(op, "call", "pending", <<>>, <<>>)
     /\ UNCHANGED <<publisher, subscriber, isConnected, isSubscribed, handlers,
                    conns, wire, config>>

\* publish(channel, data), called by publishPosition and publishIgnitionEvent.
Publish(op, logical, data) ==
  \/ /\ NotConnected
     /\ ev' = Event(op, "call", AfterHandleError, NotConnectedLog \o PublishedLog, <<>>)
     /\ UNCHANGED <<publisher, subscriber, isConnected, isSubscribed, handlers,
                    conns, calls, wire, config>>
  \/ /\ ~NotConnected
     /\ HasFree
     /\ calls' = [calls EXCEPT ![FreeSlot] = Call(op, "publish", publisher, {})]
     /\ wire' = IF op = "publishPosition" /\ SubscribedTo(prefixChannel(logical)) # {}
                THEN [op |-> op, channel |-> prefixChannel(logical),
                      message |-> Serialize(data), data |-> data,
                      to |-> SubscribedTo(prefixChannel(logical))]
                ELSE wire
     /\ ev' = Event(op, "call", "pending", <<>>,
                    <<Cmd(publisher, "publish",
                          [channel |-> prefixChannel(logical), message |-> Serialize(data)])>>)
     /\ UNCHANGED <<publisher, subscriber, isConnected, isSubscribed, handlers,
                    conns, config>>

PublishPosition(position) == Publish("publishPosition", POSITION_NEW, position)

PublishIgnitionEvent(event) == Publish("publishIgnitionEvent", IGNITION_CHANGED, event)

\* A pipeline filled from the last position to the first.
PipelineReversed(channel, positions) ==
  [i \in 1..Len(positions) |->
     [channel |-> channel, message |-> Serialize(positions[Len(positions) + 1 - i])]]

\* The pipeline of publishPositions: one publish per position, in order.
Pipeline(channel, positions) ==
  [i \in 1..Len(positions) |-> [channel |-> channel, message |-> Serialize(positions[i])]]

PublishPositions(positions) ==
  \/ /\ NotConnected
     /\ ev' = Event("publishPositions", "call", AfterHandleError, NotConnectedLog, <<>>)
     /\ UNCHANGED <<publisher, subscriber, isConnected, isSubscribed, handlers,
                    conns, calls, wire, config>>
  \/ /\ ~NotConnected
     /\ HasFree
     /\ calls' = [calls EXCEPT ![FreeSlot] = Call("publishPositions", "pipeline.exec", publisher, 1..Len(positions))]
     /\ UNCHANGED wire
     /\ ev' = Event("publishPositions", "call", "pending", <<>>,
                    <<Cmd(publisher, "exec", Pipeline(prefixChannel(POSITION_NEW), positions))>>)
     /\ UNCHANGED <<publisher, subscriber, isConnected, isSubscribed, handlers,
                    conns, config>>

PublishOps == {"publishPosition", "publishIgnitionEvent", "publishPositions"}

\* The awaited publish / pipeline.exec resolved.
PublishDone(c) ==
  /\ calls[c].op \in PublishOps
  /\ conns[calls[c].conn].status = "ready"
  /\ calls' = [calls EXCEPT ![c] = NoCall]
  /\ ev' = Event(calls[c].op, "resume", "resolved", <<Log("debug", "publicada")>>, <<>>)
  /\ UNCHANGED <<publisher, subscriber, isConnected, isSubscribed, handlers,
                 conns, wire, config>>

\* What handleError(message, error) throws: the error it was handed, or nothing.
handleErrorThrown(error) == IF handleErrorThrows THEN error ELSE NoError

\* The awaited publish / pipeline.exec rejected: catch, handleError.
PublishFailed(c) ==
  /\ calls[c].op \in PublishOps
  /\ calls' = [calls EXCEPT ![c] = NoCall]
  /\ ev' = [Event(calls[c].op, "resume", AfterHandleError,
                  <<Log("error", "Error publicando")>>
                    \o (IF calls[c].op = "publishPositions" THEN <<>> ELSE PublishedLog),
                  <<>>)
            EXCEPT !.settled = Settled(calls[c].pc, "rejected", TransportError),
                   !.error = handleErrorThrown(TransportError)]
  /\ UNCHANGED <<publisher, subscriber, isConnected, isSubscribed, handlers,
                 conns, wire, config>>

\* The awaited pipeline.exec() resolved with the [error, result] pair of every
\* command, some of the errors set: publishPositions does not look at them.
ExecCommandsFailed(c) ==
  /\ calls[c].op = "publishPositions"
  /\ \E failed \in (SUBSET calls[c].arg) \ {{}} :
       ev' = [Event(calls[c].op, "resume", "resolved", <<Log("debug", "publicada")>>, <<>>)
              EXCEPT !.settled = Settled(calls[c].pc, "resolved", [failed |-> failed])]
  /\ calls' = [calls EXCEPT ![c] = NoCall]
  /\ UNCHANGED <<publisher, subscriber, isConnected, isSubscribed, handlers,
                 conns, wire, config>>

----------------------------------------------------------------------------
(* on, off *)

\* An on() that keeps the handlers in a list: every call appends.
OnAppends(eventType, handler) ==
  /\ handlers' = [handlers EXCEPT ![eventType] =
                    [has |-> TRUE, set |-> Append(@.set, handler)]]
  /\ ev' = [Event("on", "call", "resolved", <<Log("debug", "Handler registrado")>>, <<>>)
            EXCEPT !.began = handlers[eventType].set]
  /\ UNCHANGED <<publisher, subscriber, isConnected, isSubscribed, conns,
                 calls, wire, config>>

\* on(eventType, handler): Set.add on the Set of the event type, created when
\* missing.  The event keeps the Set as it was when the call began.
On(eventType, handler) ==
  /\ handlers' = [handlers EXCEPT ![eventType] =
                    [has |-> TRUE,
                     set |-> IF handler \in Range(@.set) THEN @.set
                             ELSE Append(@.set, handler)]]
  /\ ev' = [Event("on", "call", "resolved", <<Log("debug", "Handler registrado")>>, <<>>)
            EXCEPT !.began = handlers[eventType].set]
  /\ UNCHANGED <<publisher, subscriber, isConnected, isSubscribed, conns,
                 calls, wire, config>>

Off(eventType, handler) ==
  /\ handlers' = [handlers EXCEPT ![eventType] =
                    IF @.has THEN [has |-> TRUE, set |-> Without(@.set, handler)] ELSE @]
  /\ ev' = Event("off", "call", "resolved", <<>>, <<>>)
  /\ UNCHANGED <<publisher, subscriber, isConnected, isSubscribed, conns,
                 calls, wire, config>>

----------------------------------------------------------------------------
(* subscribe, unsubscribe *)

Subscribe ==
  \/ /\ SubscribeNotConnected
     /\ ev' = Event("subscribe", "call", "rejected", <<>>, <<>>)
     /\ UNCHANGED <<publisher, subscriber, isConnected, isSubscribed, handlers,
                    conns, calls, wire, config>>
  \/ /\ ~SubscribeNotConnected
     /\ AlreadySubscribed
     /\ ev' = Event("subscribe", "call", "resolved", <<Log("warn", "Ya suscrito a eventos")>>, <<>>)
     /\ UNCHANGED <<publisher, subscriber, isConnected, isSubscribed, handlers,
                    conns, calls, wire, config>>
  \/ /\ ~SubscribeNotConnected
     /\ ~AlreadySubscribed
     /\ SubscribeChannels = {}
     /\ ev' = Event("subscribe", "call", "resolved",
                    <<Log("warn", "No hay handlers registrados para suscribirse")>>, <<>>)
     /\ UNCHANGED <<publisher, subscriber, isConnected, isSubscribed, handlers,
                    conns, calls, wire, config>>
  \/ /\ ~SubscribeNotConnected
     /\ ~AlreadySubscribed
     /\ SubscribeChannels # {}
     /\ HasFree
     /\ conns[subscriber].listeners < MaxListeners
     /\ LET prefixedChannels == {prefixChannel(ch) : ch \in SubscribeChannels}
        IN /\ conns' = [conns EXCEPT ![subscriber].listeners = @ + 1]
           /\ calls' = [calls EXCEPT ![FreeSlot] =
                          Call("subscribe", "subscriber.subscribe", subscriber, prefixedChannels)]
           /\ ev' = [Event("subscribe", "call", "pending", <<>>,
                           <<Cmd(subscriber, "subscribe", prefixedChannels)>>)
                     EXCEPT !.listened = subscriber]
     /\ UNCHANGED <<publisher, subscriber, isConnected, isSubscribed, handlers,
                    wire, config>>

\* await this.subscriber.subscribe(...) resolved.
SubscribeDone(c) ==
  /\ calls[c].op = "subscribe"
  /\ conns[calls[c].conn].status = "ready"
  /\ conns' = [conns EXCEPT ![calls[c].conn].subs = @ \cup calls[c].arg]
  /\ isSubscribed' = TRUE
  /\ calls' = [calls EXCEPT ![c] = NoCall]
  /\ ev' = Event("subscribe", "resume", "resolved", <<Log("info", "Suscrito")>>, <<>>)
  /\ UNCHANGED <<publisher, subscriber, isConnected, handlers, wire, config>>

\* await this.subscriber.subscribe(...) rejected: no try/catch, the call rejects.
SubscribeFailed(c) ==
  /\ calls[c].op = "subscribe"
  /\ calls' = [calls EXCEPT ![c] = NoCall]
  /\ ev' = Event("subscribe", "resume", "rejected", <<>>, <<>>)
  /\ UNCHANGED <<publisher, subscriber, isConnected, isSubscribed, handlers,
                 conns, wire, config>>

\* A guard that looks at the connection only.
UnsubscribeWhenConnected == subscriber # NULL

\* `this.subscriber && this.isSubscribed`
UnsubscribeGuard == subscriber # NULL /\ isSubscribed

unsubscribe ==
  \/ /\ UnsubscribeGuard
     /\ HasFree
     /\ calls' = [calls EXCEPT ![FreeSlot] =
                    Call("unsubscribe", "subscriber.unsubscribe", subscriber, {})]
     /\ ev' = Event("unsubscribe", "call", "pending", <<>>, <<Cmd(subscriber, "unsubscribe", {})>>)
     /\ UNCHANGED <<publisher, subscriber, isConnected, isSubscribed, handlers,
                    conns, wire, settings>>
  \/ /\ ~UnsubscribeGuard
     /\ ev' = Event("unsubscribe", "call", "resolved", <<>>, <<>>)
     /\ UNCHANGED <<publisher, subscriber, isConnected, isSubscribed, handlers,
                    conns, calls, wire, settings>>

\* unsubscribe() called by the application itself.
Unsubscribe == unsubscribe /\ UNCHANGED mod

\* await this.subscriber.unsubscribe() resolved.
UnsubscribeDone(c) ==
  /\ calls[c].op = "unsubscribe"
  /\ conns[calls[c].conn].status = "ready"
  /\ conns' = [conns EXCEPT ![calls[c].conn].subs = {}]
  /\ isSubscribed' = FALSE
  /\ calls' = [calls EXCEPT ![c] = NoCall]
  /\ wire' = Reached(wire, calls[c].conn)
  /\ ev' = Event("unsubscribe", "resume", "resolved", <<Log("info", "Desuscrito")>>, <<>>)
  /\ UNCHANGED <<publisher, subscriber, isConnected, handlers, config>>

UnsubscribeFailed(c) ==
  /\ calls[c].op = "unsubscribe"
  /\ calls' = [calls EXCEPT ![c] = NoCall]
  /\ ev' = Event("unsubscribe", "resume", "rejected", <<>>, <<>>)
  /\ UNCHANGED <<publisher, subscriber, isConnected, isSubscribed, handlers,
                 conns, wire, config>>

----------------------------------------------------------------------------
(* TriperoHttpClient: URLs and query strings                                *)
(*                                                                          *)
(* A string is a sequence of characters; a run of letters and digits that   *)
(* no operation looks inside ("deviceId", "2024-01-01T00") is one element.  *)

\* The characters of the model that encodeURIComponent and URLSearchParams
\* do not leave as they are.
Specials == {",", " ", ":", "/", "&", "=", "+", "%", "?", "{", "}", "\""}

\* %XX, the two hexadecimal digits of the character's code.
PercentCode(c) ==
  CASE c = "," -> <<"%", "2", "C">>
    [] c = " " -> <<"%", "2", "0">>
    [] c = ":" -> <<"%", "3", "A">>
    [] c = "/" -> <<"%", "2", "F">>
    [] c = "&" -> <<"%", "2", "6">>
    [] c = "=" -> <<"%", "3", "D">>
    [] c = "+" -> <<"%", "2", "B">>
    [] c = "%" -> <<"%", "2", "5">>
    [] c = "?" -> <<"%", "3", "F">>
    [] c = "{" -> <<"%", "7", "B">>
    [] c = "}" -> <<"%", "7", "D">>
    [] c = "\"" -> <<"%", "2", "2">>

RECURSIVE encodeURIComponent(_)
encodeURIComponent(str) ==
  IF str = <<>> THEN <<>>
  ELSE (IF Head(str) \in Specials THEN PercentCode(Head(str)) ELSE <<Head(str)>>)
         \o encodeURIComponent(Tail(str))

\* URLSearchParams.toString() writes names and values in the
\* application/x-www-form-urlencoded form: a space becomes "+".
RECURSIVE FormEncode(_)
FormEncode(str) ==
  IF str = <<>> THEN <<>>
  ELSE (CASE Head(str) = " " -> <<"+">>
          [] Head(str) \in Specials \ {" "} -> PercentCode(Head(str))
          [] OTHER -> <<Head(str)>>)
         \o FormEncode(Tail(str))

\* Array.prototype.join(separator)
RECURSIVE join(_, _)
join(items, separator) ==
  IF items = <<>> THEN <<>>
  ELSE IF Len(items) = 1 THEN items[1]
  ELSE items[1] \o separator \o join(Tail(items), separator)

\* URLSearchParams.set(name, value): the first pair of that name gets the
\* value and the others of that name go; without one, the pair is appended.
Param(name, value) == [name |-> name, value |-> value]
ParamsSet(params, name, value) ==
  IF \E i \in 1..Len(params) : params[i].name = name
  THEN LET first == CHOOSE i \in 1..Len(params) :
                      /\ params[i].name = name
                      /\ \A j \in 1..(i - 1) : params[j].name # name
           keep == SelectSeq([i \in 1..Len(params) |-> [at |-> i, pair |-> params[i]]],
                             LAMBDA x : x.pair.name # name \/ x.at = first)
       IN [i \in 1..Len(keep) |->
             IF keep[i].at = first THEN Param(name, value) ELSE keep[i].pair]
  ELSE Append(params, Param(name, value))

\* URLSearchParams.append(name, value)
ParamsAppend(params, name, value) == Append(params, Param(name, value))

\* URLSearchParams.toString()
RECURSIVE ParamsToString(_)
ParamsToString(params) ==
  IF params = <<>> THEN <<>>
  ELSE FormEncode(params[1].name) \o <<"=">> \o FormEncode(params[1].value)
         \o (IF Len(params) = 1 THEN <<>> ELSE <<"&">> \o ParamsToString(Tail(params)))

\* One deviceId pair per element instead of one pair for the joined list.
RECURSIVE DeviceIdParamPerElement(_, _)
DeviceIdParamPerElement(params, deviceId) ==
  IF ~deviceId.array THEN ParamsSet(params, <<"deviceId">>, deviceId.value)
  ELSE IF deviceId.items = <<>> THEN params
  ELSE DeviceIdParamPerElement(
         ParamsAppend(params, <<"deviceId">>, Head(deviceId.items)),
         [deviceId EXCEPT !.items = Tail(@)])

\* buildReportParams, "Device ID(s)": an array is joined by commas.
DeviceIdParam(params, deviceId) ==
  IF deviceId.array
  THEN ParamsSet(params, <<"deviceId">>, join(deviceId.items, <<",">>))
  ELSE ParamsSet(params, <<"deviceId">>, deviceId.value)

\* `options.from instanceof Date ? options.from.toISOString() : options.from`
DateOrString(d) == IF d.date THEN d.iso ELSE d.value

\* `if (options.tenantId)`: given and not the empty string.
Truthy(opt) == opt.given /\ opt.value # <<>>

\* JSON.stringify of a metadata filter of one string property.
MetadataText(m) == <<"{", "\"", m.key, "\"", ":", "\"", m.value, "\"", "}">>

buildReportParams(options) ==
  LET p1 == DeviceIdParam(<<>>, options.deviceId)
      p2 == ParamsSet(p1, <<"from">>, DateOrString(options.from))
      p3 == ParamsSet(p2, <<"to">>, DateOrString(options.to))
      p4 == IF Truthy(options.tenantId)
            THEN ParamsSet(p3, <<"tenantId">>, options.tenantId.value) ELSE p3
      p5 == IF Truthy(options.clientId)
            THEN ParamsSet(p4, <<"clientId">>, options.clientId.value) ELSE p4
      p6 == IF Truthy(options.fleetId)
            THEN ParamsSet(p5, <<"fleetId">>, options.fleetId.value) ELSE p5
      p7 == IF options.metadata.given
            THEN ParamsSet(p6, <<"metadata">>, MetadataText(options.metadata.value)) ELSE p6
  IN ParamsToString(p7)

\* The URLs of the five operations.
TrackerStatusUrl(baseUrl, trackerId) ==
  baseUrl \o <<"/", "trackers", "/">> \o encodeURIComponent(trackerId) \o <<"/", "status">>
OdometerUrl(baseUrl, trackerId) ==
  baseUrl \o <<"/", "trackers", "/">> \o encodeURIComponent(trackerId) \o <<"/", "odometer">>
TripsUrl(baseUrl, options) ==
  baseUrl \o <<"/", "api", "/", "reports", "/", "trips", "?">> \o buildReportParams(options)
StopsUrl(baseUrl, options) ==
  baseUrl \o <<"/", "api", "/", "reports", "/", "stops", "?">> \o buildReportParams(options)
HealthUrl(baseUrl) == baseUrl \o <<"/", "health">>

----------------------------------------------------------------------------
(* TriperoHttpClient.request and the five HTTP operations                   *)

HttpOps == {"getTrackerStatus", "setOdometer", "getTrips", "getStops", "healthHttp"}

\* ensureHttpClient: throws when this.httpClient is null.
EnsureHttpClientThrows == ~http.httpClient.built
NotConfigured ==
  Err("Error", [text |-> "HTTP client not configured. Provide http.baseUrl in TriperoClientOptions."])

\* What fetch rejects with.
AbortError == Err("AbortError", [text |-> "This operation was aborted"])
NetworkError == Err("TypeError", [text |-> "fetch failed"])
\* What response.json() rejects with on a body that is no JSON.
SyntaxError == Err("SyntaxError", [text |-> "Unexpected token"])

\* `HTTP ${response.status}: ${response.statusText} - ${errorText}`
StatusError(status, statusText, errorText) ==
  Err("Error", [text |-> "HTTP status", status |-> status, statusText |-> statusText,
                errorText |-> errorText])
\* `Request timeout after ${this.timeout}ms`
TimeoutError(timeout) == Err("Error", [text |-> "Request timeout after ms", ms |-> timeout])

StatusText(status) ==
  CASE status = 200 -> "OK"
    [] status = 404 -> "Not Found"
    [] status = 503 -> "Service Unavailable"

\* A response that counts as a success whatever its status.
responseAlwaysOk(status) == TRUE

\* response.ok: the status is in the range 200-299.
responseOk(status) == status >= 200 /\ status <= 299

\* A catch block that rethrows whatever it caught.
requestCatchRethrows(error, timeout) ==
  [error |-> error, logs |-> <<Log("error", "HTTP error")>>]

\* The catch block of request: an AbortError becomes the timeout error, any
\* other error is logged and rethrown.
requestCatch(error, timeout) ==
  IF error.name = "AbortError"
  THEN [error |-> TimeoutError(timeout), logs |-> <<>>]
  ELSE [error |-> error, logs |-> <<Log("error", "HTTP error")>>]

Timeout == http.httpClient.timeout
HttpIdle == \A r \in Requests : http.reqs[r].pc = "idle"
FreeRequest ==
  CHOOSE r \in Requests :
    http.reqs[r].pc = "idle" /\ \A q \in Requests : http.reqs[q].pc = "idle" => r <= q

\* One of the HTTP methods of the client: ensureHttpClient, then request up to
\* `await fetch(...)`: the timer is armed and the request goes out.
HttpCall(op, method, url, body) ==
  \/ /\ EnsureHttpClientThrows
     /\ ev' = [Event(op, "call", "rejected", <<>>, <<>>) EXCEPT !.error = NotConfigured]
     /\ UNCHANGED <<publisher, subscriber, isConnected, isSubscribed, handlers,
                    conns, calls, wire, config>>
  \/ /\ ~EnsureHttpClientThrows
     /\ \E r \in Requests : http.reqs[r].pc = "idle"
     /\ http' = [http EXCEPT !.reqs[FreeRequest] =
                   [pc |-> "fetch", op |-> op, method |-> method, url |-> url,
                    elapsed |-> 0, status |-> 0, armed |-> TRUE]]
     /\ ev' = Event(op, "call", "pending", <<Log("debug", "HTTP")>>,
                    <<Cmd(NULL, "fetch", [method |-> method, url |-> url, body |-> body])>>)
     /\ UNCHANGED <<publisher, subscriber, isConnected, isSubscribed, handlers,
                    conns, calls, wire, throwOnError, keyPrefix, pf, redis, mod>>

GetTrackerStatus(trackerId) ==
  HttpCall("getTrackerStatus", "GET",
           TrackerStatusUrl(http.httpClient.baseUrl, trackerId), Undefined)

\* setOdometer: the reason is `reason ?? 'sdk_set'`.
SetOdometer(trackerId, initialOdometer, reason) ==
  HttpCall("setOdometer", "POST", OdometerUrl(http.httpClient.baseUrl, trackerId),
           JSONstringify(Obj([initialOdometer |-> Num(initialOdometer),
                              reason |-> IF reason.given THEN Str(reason.value)
                                         ELSE Str("sdk_set")])))

GetTrips(options) ==
  HttpCall("getTrips", "GET", TripsUrl(http.httpClient.baseUrl, options), Undefined)

GetStops(options) ==
  HttpCall("getStops", "GET", StopsUrl(http.httpClient.baseUrl, options), Undefined)

HealthHttp == HttpCall("healthHttp", "GET", HealthUrl(http.httpClient.baseUrl), Undefined)

\* The step that ends a request: the finally block clears the timer.
Finish(r, kind, outcome, logs, cmds, error, settled) ==
  /\ http' = [http EXCEPT !.reqs[r] = NoRequest]
  /\ ev' = [Event(http.reqs[r].op, kind, outcome, logs, cmds)
            EXCEPT !.error = error, !.req = http.reqs[r], !.settled = settled]
  /\ UNCHANGED <<publisher, subscriber, isConnected, isSubscribed, handlers,
                 conns, calls, wire, throwOnError, keyPrefix, pf, redis, mod>>

\* Time passes for a request that is in flight, up to the instant its timer is
\* set for.
Instants(timeout) == {timeout \div 2, timeout}
Tick(r) ==
  /\ http.reqs[r].pc # "idle"
  /\ \E t \in Instants(Timeout) :
       /\ t > http.reqs[r].elapsed
       /\ http' = [http EXCEPT !.reqs[r].elapsed = t]
  /\ ev' = Event("time", "tick", "none", <<>>, <<>>)
  /\ UNCHANGED <<publisher, subscriber, isConnected, isSubscribed, handlers,
                 conns, calls, wire, throwOnError, keyPrefix, pf, redis, mod>>

\* A timer that aborts through a controller all requests share: every request
\* in flight ends when it goes off.
TimerFiresShared(r) ==
  /\ http.reqs[r].pc # "idle"
  /\ http.reqs[r].armed
  /\ http.reqs[r].elapsed >= Timeout
  /\ LET caught == requestCatch(AbortError, Timeout)
     IN /\ http' = [http EXCEPT !.reqs = [q \in Requests |-> NoRequest]]
        /\ ev' = [Event(http.reqs[r].op, "timer", "rejected", caught.logs,
                        <<Cmd(NULL, "abort", r)>>)
                  EXCEPT !.error = caught.error, !.req = http.reqs[r],
                         !.settled = Settled(http.reqs[r].pc, "rejected", AbortError)]
        /\ UNCHANGED <<publisher, subscriber, isConnected, isSubscribed, handlers,
                       conns, calls, wire, throwOnError, keyPrefix, pf, redis, mod>>

\* The timer goes off: controller.abort(); the promise the request awaits
\* rejects with an AbortError, which the catch block handles.
TimerFires(r) ==
  /\ http.reqs[r].pc # "idle"
  /\ http.reqs[r].armed
  /\ http.reqs[r].elapsed >= Timeout
  /\ LET caught == requestCatch(AbortError, Timeout)
     IN Finish(r, "timer", "rejected", caught.logs, <<Cmd(NULL, "abort", r)>>,
               caught.error, Settled(http.reqs[r].pc, "rejected", AbortError))

\* await fetch(...) resolved with a response before the timer went off.
Statuses == {200, 404, 503}
FetchResponds(r, status) ==
  /\ http.reqs[r].pc = "fetch"
  /\ http.reqs[r].elapsed < Timeout
  /\ http' = [http EXCEPT !.reqs[r].status = status,
                          !.reqs[r].pc = IF responseOk(status) THEN "json" ELSE "text"]
  /\ ev' = [Event(http.reqs[r].op, "resume", "pending", <<>>, <<>>)
            EXCEPT !.req = http.reqs[r], !.settled = Settled("fetch", "resolved", status)]
  /\ UNCHANGED <<publisher, subscriber, isConnected, isSubscribed, handlers,
                 conns, calls, wire, throwOnError, keyPrefix, pf, redis, mod>>

\* await fetch(...) rejected: the network failed.
FetchFails(r) ==
  /\ http.reqs[r].pc = "fetch"
  /\ http.reqs[r].elapsed < Timeout
  /\ LET caught == requestCatch(NetworkError, Timeout)
     IN Finish(r, "resume", "rejected", caught.logs, <<>>, caught.error,
               Settled("fetch", "rejected", NetworkError))

\* await response.text() resolved: the status error is thrown and caught.
ErrorTexts == {"tracker not found", ""}
TextResolves(r, errorText) ==
  /\ http.reqs[r].pc = "text"
  /\ http.reqs[r].elapsed < Timeout
  /\ LET caught == requestCatch(StatusError(http.reqs[r].status,
                                            StatusText(http.reqs[r].status), errorText),
                                Timeout)
     IN Finish(r, "resume", "rejected", caught.logs, <<>>, caught.error,
               Settled("text", "resolved", errorText))

\* await response.json() resolved: the parsed body is returned.
JsonResolves(r) ==
  /\ http.reqs[r].pc = "json"
  /\ http.reqs[r].elapsed < Timeout
  /\ Finish(r, "resume", "resolved", <<>>, <<>>, NoError,
            Settled("json", "resolved", "data"))

\* Reading the body failed: the connection broke, or the body is no JSON.
BodyFails(r, error) ==
  /\ http.reqs[r].pc \in {"text", "json"}
  /\ http.reqs[r].elapsed < Timeout
  /\ error = SyntaxError => http.reqs[r].pc = "json"
  /\ LET caught == requestCatch(error, Timeout)
     IN Finish(r, "resume", "rejected", caught.logs, <<>>, caught.error,
               Settled(http.reqs[r].pc, "rejected", error))

----------------------------------------------------------------------------
(* An inbound message *)

\* The transport emits 'message' on a connection: every listener installed on it
\* by subscribe runs handleMessage, one after the other.
RECURSIVE Emit(_, _, _)
Emit(n, prefixedChannel, message) ==
  IF n = 0 THEN [invoked |-> <<>>, logs |-> <<>>]
  ELSE LET one == handleMessage(prefixedChannel, message)
           rest == Emit(n - 1, prefixedChannel, message)
       IN [invoked |-> one.invoked \o rest.invoked, logs |-> one.logs \o rest.logs]

Deliver(conn, prefixedChannel, message, sent) ==
  /\ conns[conn].status = "ready"
  /\ prefixedChannel \in conns[conn].subs
  /\ conns[conn].listeners > 0
  /\ LET r == Emit(conns[conn].listeners, prefixedChannel, message)
     IN ev' = [Event("message", "message", "resolved", r.logs, <<>>)
               EXCEPT !.conn = conn, !.channel = prefixedChannel,
                      !.message = message, !.sent = sent, !.invoked = r.invoked,
                      !.afterBad = /\ ev.kind = "message"
                                   /\ ev.conn = conn
                                   /\ ev.channel = prefixedChannel
                                   /\ JSONparseThrows(ev.message)]
  /\ UNCHANGED <<publisher, subscriber, isConnected, isSubscribed, handlers,
                 conns, calls, config>>

\* A message of the remote service arrives.
DeliverRemote(conn, prefixedChannel, message) ==
  /\ Deliver(conn, prefixedChannel, message, Undefined)
  /\ UNCHANGED wire

\* The position this client published arrives at a connection it has yet to reach.
DeliverEcho(conn) ==
  /\ conn \in wire.to
  /\ Deliver(conn, wire.channel, wire.message, wire.data)
  /\ wire' = Reached(wire, conn)

----------------------------------------------------------------------------------------------------------------------------------------
(* Specifications *)

\* A continuation of a suspended call: the awaited transport promise settles.
Resume(c) ==
  \/ ConnectPublisherReady(c)
  \/ ConnectSubscriberReady(c)
  \/ ConnectFailed(c)
  \/ DisconnectSubscriberQuit(c)
  \/ DisconnectPublisherQuit(c)
  \/ DisconnectQuitFailed(c)
  \/ PublishDone(c)
  \/ PublishFailed(c)
  \/ SubscribeDone(c)
  \/ SubscribeFailed(c)
  \/ UnsubscribeDone(c)
  \/ UnsubscribeFailed(c)

Channels == {prefixChannel(e) : e \in EventTypes}

\* What the remote service may send to a subscribed connection.
Inbound == {[channel |-> ch, message |-> m] : ch \in Channels, m \in RemoteMessages}

\* No call is suspended: the caller awaited everything it started.
Idle == \A c \in Slots : calls[c].op = "idle"

\* The caller awaits each call before it makes the next one; messages arrive at
\* any time.  Every payload and every handler of the model takes part.
Next ==
  \/ Idle /\ Connect
  \/ Idle /\ Disconnect
  \/ Idle /\ \E p \in Positions : PublishPosition(p)
  \/ Idle /\ \E e \in IgnitionEvents : PublishIgnitionEvent(e)
  \/ Idle /\ \E ps \in Batches : PublishPositions(ps)
  \/ Idle /\ \E r \in Registrations : On(r[1], r[2])
  \/ Idle /\ \E r \in Registrations : Off(r[1], r[2])
  \/ Idle /\ Subscribe
  \/ Idle /\ Unsubscribe
  \/ \E c \in Slots : Resume(c)
  \/ \E i \in ConnIds, in \in Inbound : DeliverRemote(i, in.channel, in.message)
  \/ \E i \in ConnIds : DeliverEcho(i)

Spec == Init /\ [][Next]_vars

\* The caller does not await: up to MaxCalls calls are suspended at once and
\* their continuations interleave.  One payload, one handler.
OverlapNext ==
  \/ Connect
  \/ Disconnect
  \/ PublishPosition(PosFull)
  \/ On(TRIP_STARTED, "h1")
  \/ Subscribe
  \/ Unsubscribe
  \/ \E c \in Slots : Resume(c)

OverlapInit == Init /\ ~throwOnError /\ keyPrefix # <<>>
OverlapSpec == OverlapInit /\ [][OverlapNext]_vars

----------------------------------------------------------------------------
(* prefixChannel and unprefixChannel on their own: the configured prefix and  *)
(* the logical name are any strings of up to MaxLen characters.               *)

Chars == {"t", ":"}
Strings == UNION {[1..n -> Chars] : n \in 0..MaxLen}

PrefixInit ==
  /\ throwOnError = DEFAULT_THROW_ON_ERROR
  /\ keyPrefix \in Strings
  /\ \E name \in Strings : pf = [stage |-> "name", name |-> name, text |-> name]
  /\ PlainInit
  /\ ClientInit

ApplyPrefix ==
  /\ pf.stage = "name"
  /\ pf' = [pf EXCEPT !.stage = "prefixed", !.text = prefixChannel(pf.text)]
  /\ UNCHANGED <<throwOnError, keyPrefix, publisher, subscriber, isConnected,
                 isSubscribed, handlers, conns, calls, wire, ev, redis, http, mod>>

ApplyUnprefix ==
  /\ pf.stage = "prefixed"
  /\ pf' = [pf EXCEPT !.stage = "unprefixed", !.text = unprefixChannel(pf.text)]
  /\ UNCHANGED <<throwOnError, keyPrefix, publisher, subscriber, isConnected,
                 isSubscribed, handlers, conns, calls, wire, ev, redis, http, mod>>

PrefixNext == ApplyPrefix \/ ApplyUnprefix

PrefixSpec == PrefixInit /\ [][PrefixNext]_vars

----------------------------------------------------------------------------
(* getTrips and getStops on their own: the URL built for a report query.    *)

DeviceIds == {<<"a">>, <<"b">>, <<"a", ",", "b">>, <<"V", " ", "1">>}
DeviceIdLists == UNION {[1..n -> DeviceIds] : n \in 0..MaxIds}
DeviceIdFilters ==
  {[array |-> TRUE, items |-> l, value |-> <<>>] : l \in DeviceIdLists}
    \cup {[array |-> FALSE, items |-> <<>>, value |-> v] : v \in DeviceIds \cup {<<"all">>}}
Dates ==
  {[date |-> TRUE, iso |-> <<"2024-01-01T00", ":", "00", ":", "00.000Z">>, value |-> <<>>],
   [date |-> FALSE, iso |-> <<>>, value |-> <<"2024-01-01">>]}
ReportQueries ==
  {[deviceId |-> d, from |-> f, to |-> f, tenantId |-> t, clientId |-> Omitted,
    fleetId |-> Omitted, metadata |-> Omitted] :
     d \in DeviceIdFilters, f \in Dates, t \in {Omitted, Given(<<"acme">>)}}

ReportInit ==
  /\ throwOnError = DEFAULT_THROW_ON_ERROR
  /\ keyPrefix = DEFAULT_REDIS_KEY_PREFIX
  /\ \E op \in {"getTrips", "getStops"}, q \in ReportQueries :
       pf = [stage |-> "options", name |-> op, options |-> q, text |-> <<>>]
  /\ PlainInit
  /\ ClientInit

GetTripsUrl ==
  /\ pf.stage = "options" /\ pf.name = "getTrips"
  /\ pf' = [pf EXCEPT !.stage = "url",
                      !.text = TripsUrl(http.httpClient.baseUrl, pf.options)]
  /\ UNCHANGED <<throwOnError, keyPrefix, publisher, subscriber, isConnected,
                 isSubscribed, handlers, conns, calls, wire, ev, redis, http, mod>>

GetStopsUrl ==
  /\ pf.stage = "options" /\ pf.name = "getStops"
  /\ pf' = [pf EXCEPT !.stage = "url",
                      !.text = StopsUrl(http.httpClient.baseUrl, pf.options)]
  /\ UNCHANGED <<throwOnError, keyPrefix, publisher, subscriber, isConnected,
                 isSubscribed, handlers, conns, calls, wire, ev, redis, http, mod>>

ReportNext == GetTripsUrl \/ GetStopsUrl

ReportSpec == ReportInit /\ [][ReportNext]_vars

----------------------------------------------------------------------------
(* The HTTP operations of a client, constructed with or without the http    *)
(* option, connected or not.  The caller awaits each call.                  *)

HttpOptions ==
  {Omitted,
   Given([baseUrl |-> BaseUrl, timeout |-> Omitted]),
   Given([baseUrl |-> BaseUrl \o <<"/">>, timeout |-> Given(5000)]),
   Given([baseUrl |-> BaseUrl, timeout |-> Given(0)])}

HttpInit ==
  /\ throwOnError = DEFAULT_THROW_ON_ERROR
  /\ keyPrefix = DEFAULT_REDIS_KEY_PREFIX
  /\ pf = [stage |-> "idle", name |-> <<>>, text |-> <<>>]
  /\ redis = ResolveRedis(RedisOmitted)
  /\ \E opt \in HttpOptions : http = NewHttp(opt)
  /\ mod = NoModule
  /\ ClientInit

TrackerIds == {<<"V", "/", "1">>}
Reasons == {Omitted, Given("calibration")}
HttpQueries ==
  {q \in ReportQueries :
     /\ q.deviceId \in {[array |-> TRUE, items |-> <<<<"a">>, <<"b">>>>, value |-> <<>>],
                        [array |-> FALSE, items |-> <<>>, value |-> <<"all">>]}
     /\ q.from.date
     /\ ~q.tenantId.given}

ConnectResume(c) ==
  \/ ConnectPublisherReady(c)
  \/ ConnectSubscriberReady(c)
  \/ ConnectFailed(c)

DisconnectResume(c) ==
  \/ DisconnectSubscriberQuit(c)
  \/ DisconnectPublisherQuit(c)
  \/ DisconnectQuitFailed(c)

\* Without a constructed client there is nothing to call.
Constructed == http.constructed = "ok"

HttpNext ==
  \/ Constructed /\ Idle /\ HttpIdle /\ Connect
  \/ Constructed /\ Idle /\ HttpIdle /\ Disconnect
  \/ \E c \in Slots : ConnectResume(c)
  \/ \E c \in Slots : DisconnectResume(c)
  \/ Constructed /\ Idle /\ HttpIdle /\ \E t \in TrackerIds : GetTrackerStatus(t)
  \/ Constructed /\ Idle /\ HttpIdle /\ \E t \in TrackerIds, reason \in Reasons :
                                          SetOdometer(t, 1000, reason)
  \/ Constructed /\ Idle /\ HttpIdle /\ \E q \in HttpQueries : GetTrips(q)
  \/ Constructed /\ Idle /\ HttpIdle /\ \E q \in HttpQueries : GetStops(q)
  \/ Constructed /\ Idle /\ HttpIdle /\ HealthHttp
  \/ \E r \in Requests : Tick(r)
  \/ \E r \in Requests : TimerFires(r)
  \/ \E r \in Requests, status \in Statuses : FetchResponds(r, status)
  \/ \E r \in Requests : FetchFails(r)
  \/ \E r \in Requests, text \in ErrorTexts : TextResolves(r, text)
  \/ \E r \in Requests : JsonResolves(r)
  \/ \E r \in Requests, error \in {NetworkError, SyntaxError} : BodyFails(r, error)

HttpSpec == HttpInit /\ [][HttpNext]_vars

----------------------------------------------------------------------------
(* health() on a client that connects and disconnects, for the redis        *)
(* options given and left out.  The caller awaits each call.                *)

RedisOptions ==
  {RedisOmitted,
   [host |-> Given("redis-tripero-service"), port |-> Given(6380), db |-> Given(0)],
   [host |-> Omitted, port |-> Omitted, db |-> Given(2)]}

HealthInit ==
  /\ \E opt \in ThrowOnErrorOptions : throwOnError = ResolveThrowOnError(opt)
  /\ keyPrefix = DEFAULT_REDIS_KEY_PREFIX
  /\ pf = [stage |-> "idle", name |-> <<>>, text |-> <<>>]
  /\ \E o \in RedisOptions : redis = ResolveRedis(o)
  /\ http = NewHttp(Given(PlainHttp))
  /\ mod = NoModule
  /\ ClientInit

HealthResume(c) == HealthPong(c) \/ HealthPingFailed(c)

HealthNext ==
  \/ Idle /\ Connect
  \/ Idle /\ Disconnect
  \/ Idle /\ Health
  \/ \E c \in Slots : ConnectResume(c)
  \/ \E c \in Slots : DisconnectResume(c)
  \/ \E c \in Slots : HealthResume(c)

HealthSpec == HealthInit /\ [][HealthNext]_vars

----------------------------------------------------------------------------
(* The publish operations on a client that connects and disconnects, with   *)
(* every way the transport can answer: the command or the pipeline resolves *)
(* or rejects, or the pipeline resolves carrying the errors of its commands.*)
(* The caller awaits each call.                                             *)

PublishResume(c) == PublishDone(c) \/ PublishFailed(c) \/ ExecCommandsFailed(c)

PublishNext ==
  \/ Idle /\ Connect
  \/ Idle /\ Disconnect
  \/ Idle /\ \E p \in Positions : PublishPosition(p)
  \/ Idle /\ \E e \in IgnitionEvents : PublishIgnitionEvent(e)
  \/ Idle /\ \E ps \in Batches : PublishPositions(ps)
  \/ \E c \in Slots : ConnectResume(c)
  \/ \E c \in Slots : DisconnectResume(c)
  \/ \E c \in Slots : PublishResume(c)

PublishSpec == Init /\ [][PublishNext]_vars

----------------------------------------------------------------------------
(* TriperoModule: the service inside a NestJS container.  The container      *)
(* resolves TRIPERO_OPTIONS, runs the factory of TriperoService, hands the  *)
(* instance the factory returned to the consumers, and at teardown calls    *)
(* the onModuleDestroy hook of every provider once, one after the other.    *)

ModuleModes == {"forRoot", "forRootAsync"}

\* forRoot provides the options as a value, forRootAsync through useFactory.
TriperoModule(mode) ==
  [mode |-> mode,
   stage |-> IF mode = "forRoot" THEN "options" ELSE "optionsFactory",
   ready |-> FALSE, destroyed |-> 0, consumerDestroyed |-> 0]

\* createEventDecorator(eventType) applied to a method: the metadata of the
\* class gets one more entry.
createEventDecorator(existingHandlers, eventType, propertyKey) ==
  Append(existingHandlers, [eventType |-> eventType, methodName |-> propertyKey])

OnTripStarted(existingHandlers, propertyKey) ==
  createEventDecorator(existingHandlers, TRIP_STARTED, propertyKey)

OnTriperoEvent(existingHandlers, eventType, propertyKey) ==
  createEventDecorator(existingHandlers, eventType, propertyKey)

getTriperoEventHandlers(metadata) == metadata

\* The metadata of a component with two decorated methods.
ListenerMetadata ==
  OnTriperoEvent(OnTripStarted(<<>>, "handleTripStarted"), POSITION_NEW, "handlePosition")

ModuleInit ==
  /\ \E opt \in ThrowOnErrorOptions : throwOnError = ResolveThrowOnError(opt)
  /\ keyPrefix = DEFAULT_REDIS_KEY_PREFIX
  /\ pf = [stage |-> "idle", name |-> <<>>, text |-> <<>>]
  /\ redis = ResolveRedis(RedisOmitted)
  /\ http = NewHttp(Given(PlainHttp))
  /\ \E mode \in ModuleModes : mod = TriperoModule(mode)
  /\ ClientInit

ModuleStep(op, outcome, stage) ==
  /\ mod' = [mod EXCEPT !.stage = stage]
  /\ ev' = Event(op, "resume", outcome, <<>>, <<>>)
  /\ UNCHANGED <<publisher, subscriber, isConnected, isSubscribed, handlers,
                 conns, calls, wire, settings>>

\* asyncOptions.useFactory returned the options, or threw.
OptionsFactoryResolves ==
  /\ mod.stage = "optionsFactory"
  /\ ModuleStep("asyncOptions.useFactory", "resolved", "options")

OptionsFactoryRejects ==
  /\ mod.stage = "optionsFactory"
  /\ ModuleStep("asyncOptions.useFactory", "rejected", "failed")

\* useFactory of TriperoService: new TriperoService(opts); await service.connect()
ClientFactory ==
  /\ mod.stage = "options"
  /\ connect
  /\ mod' = [mod EXCEPT !.stage = "connecting"]

\* The connect() the factory awaits resolved: the factory goes on to its return.
FactoryConnectResolved(c) ==
  /\ mod.stage = "connecting"
  /\ connectResolves(c)
  /\ mod' = [mod EXCEPT !.stage = "connected"]

\* The connect() the factory awaits failed to open a connection: if it rejects,
\* the factory rejects and the container has no instance.
FactoryConnectFailed(c) ==
  /\ mod.stage = "connecting"
  /\ connectRejects(c)
  /\ mod' = [mod EXCEPT !.stage = IF ev'.outcome = "rejected" THEN "failed" ELSE "connected"]

\* return service: the container hands the instance to the consumers.
FactoryReturn ==
  /\ mod.stage = "connected"
  /\ ModuleStep("useFactory", "resolved", "provided")

\* The container has initialised every module: the application is ready.  The
\* module has no provider that reads the metadata of the decorators, and no
\* hook of its own at this time.
ContainerReady ==
  /\ mod.stage = "provided" /\ ~mod.ready
  /\ mod.destroyed = 0 /\ mod.consumerDestroyed = 0
  /\ mod' = [mod EXCEPT !.ready = TRUE]
  /\ ev' = Event("ready", "call", "resolved", <<>>, <<>>)
  /\ UNCHANGED <<publisher, subscriber, isConnected, isSubscribed, handlers,
                 conns, calls, wire, settings>>

\* The consumers use the instance until the container is torn down.
InUse == mod.stage = "provided" /\ mod.destroyed = 0 /\ mod.consumerDestroyed = 0

\* TriperoService.onModuleDestroy: await this.disconnect()
ServiceOnModuleDestroy ==
  /\ mod.stage = "provided" /\ mod.destroyed = 0
  /\ disconnect
  /\ mod' = [mod EXCEPT !.destroyed = @ + 1]

\* The onModuleDestroy of a consumer: await this.tripero.unsubscribe()
ConsumerOnModuleDestroy ==
  /\ mod.stage = "provided" /\ mod.consumerDestroyed = 0
  /\ unsubscribe
  /\ mod' = [mod EXCEPT !.consumerDestroyed = @ + 1]

SubscriptionResume(c) ==
  \/ SubscribeDone(c)
  \/ SubscribeFailed(c)
  \/ UnsubscribeDone(c)
  \/ UnsubscribeFailed(c)

ModuleNext ==
  \/ OptionsFactoryResolves
  \/ OptionsFactoryRejects
  \/ ClientFactory
  \/ \E c \in Slots : ConnectPublisherReady(c)
  \/ \E c \in Slots : FactoryConnectResolved(c)
  \/ \E c \in Slots : FactoryConnectFailed(c)
  \/ FactoryReturn
  \/ Idle /\ ContainerReady
  \/ Idle /\ InUse /\ \E r \in Registrations : On(r[1], r[2])
  \/ Idle /\ InUse /\ Subscribe
  \/ Idle /\ ServiceOnModuleDestroy
  \/ Idle /\ ConsumerOnModuleDestroy
  \/ \E c \in Slots : SubscriptionResume(c)
  \/ \E c \in Slots : DisconnectResume(c)

ModuleSpec == ModuleInit /\ [][ModuleNext]_vars

----------------------------------------------------------------------------
(* Every operation of the client that hands a command to the transport, on  *)
(* a client built with the key prefix left out, empty, or of its own.  The  *)
(* caller awaits each call; no message arrives.                             *)

ChannelPrefixOptions == {Omitted, Given(<<>>), Given(<<"fleet:">>)}

\* One handler for each of two event types.
ChannelRegistrations == {<<POSITION_NEW, "h1">>, <<TRIP_STARTED, "h1">>}

ChannelInit ==
  /\ \E opt \in ThrowOnErrorOptions : throwOnError = ResolveThrowOnError(opt)
  /\ \E opt \in ChannelPrefixOptions :
       /\ keyPrefix = ResolveKeyPrefix(opt)
       /\ pf = [stage |-> "idle", name |-> <<>>, text |-> <<>>, option |-> opt]
  /\ PlainInit
  /\ ClientInit

ChannelNext ==
  \/ Idle /\ Connect
  \/ Idle /\ Disconnect
  \/ Idle /\ PublishPosition(PosFull)
  \/ Idle /\ \E e \in IgnitionEvents : PublishIgnitionEvent(e)
  \/ Idle /\ \E ps \in Batches : PublishPositions(ps)
  \/ Idle /\ \E r \in ChannelRegistrations : On(r[1], r[2])
  \/ Idle /\ \E r \in ChannelRegistrations : Off(r[1], r[2])
  \/ Idle /\ Subscribe
  \/ Idle /\ Unsubscribe
  \/ Idle /\ Health
  \/ \E c \in Slots : ConnectResume(c)
  \/ \E c \in Slots : DisconnectResume(c)
  \/ \E c \in Slots : PublishResume(c)
  \/ \E c \in Slots : SubscriptionResume(c)
  \/ \E c \in Slots : HealthResume(c)

ChannelSpec == ChannelInit /\ [][ChannelNext]_vars

----------------------------------------------------------------------------
(* Properties *)

HasLog(level, msg) == \E i \in 1..Len(ev.logs) : ev.logs[i] = Log(level, msg)
InvokedHandlers == {ev.invoked[i].handler : i \in 1..Len(ev.invoked)}
\* The event type a prefixed channel stands for: the name the prefix was put
\* in front of.
Logical(prefixedChannel) == CHOOSE e \in EventTypes : keyPrefix \o e = prefixedChannel
\* The handlers registered for the channel of the message of the last step.
Registered == handlers[Logical(ev.channel)].set

\* C1: publishPosition, publishIgnitionEvent and publishPositions called while
\* the client is not connected log an error and issue no transport command; the
\* call resolves when throwOnError is false and rejects when it is true.
C1_PublishNotConnected ==
  (ev.kind = "call" /\ ev.op \in PublishOps /\ ~ev.pre.isConnected) =>
    /\ ev.cmds = <<>>
    /\ HasLog("error", "No conectado a Redis")
    /\ (~throwOnError => ev.outcome = "resolved")
    /\ (throwOnError => ev.outcome = "rejected")

\* C1 happens: a batch publish on a client that holds no connection and has a
\* handler registered, rejected because throwOnError is set.
C1_Witness ==
  /\ ev.kind = "call" /\ ev.op = "publishPositions"
  /\ ~ev.pre.isConnected /\ ev.pre.publisher = NULL
  /\ handlers[POSITION_NEW].set # <<>>
  /\ throwOnError /\ ev.outcome = "rejected"

\* C2: connect() on a connected client opens no connection, keeps the publisher
\* and the subscriber it holds, logs a warning and returns.
C2_ConnectWhenConnected ==
  (ev.kind = "call" /\ ev.op = "connect" /\ ev.pre.isConnected) =>
    /\ ev.cmds = <<>>
    /\ publisher = ev.pre.publisher
    /\ subscriber = ev.pre.subscriber
    /\ isConnected
    /\ ev.logs = <<Log("warn", "Ya conectado a Redis")>>
    /\ ev.outcome = "resolved"

C2_Witness ==
  /\ ev.kind = "call" /\ ev.op = "connect" /\ ev.pre.isConnected
  /\ publisher # NULL /\ subscriber # NULL
  /\ conns[publisher].status = "ready" /\ conns[subscriber].status = "ready"

\* C3: when a call to disconnect() has finished, whether it resolved or a quit
\* failed, isConnected and isSubscribed are false and neither connection is held.
C3_DisconnectResets ==
  (ev.op = "disconnect" /\ ev.outcome \in {"resolved", "rejected"}) =>
    /\ ~isConnected
    /\ ~isSubscribed
    /\ publisher = NULL
    /\ subscriber = NULL

\* C4: for a message that parses, every handler registered for its event type is
\* invoked, also after one of them threw; the throw is logged and the listener
\* returns normally.
C4_ThrowingHandlerIsolated ==
  (ev.kind = "message" /\ ~JSONparseThrows(ev.message)) =>
    /\ InvokedHandlers = Range(Registered)
    /\ Len(ev.invoked) = Len(Registered) * conns[ev.conn].listeners
    /\ (\E h \in Range(Registered) : Behaviour(h) = "throws")
         => HasLog("error", "Error en handler")
    /\ ev.outcome = "resolved"

\* C4 happens: the handler that throws was invoked first, the other one after it.
C4_Witness ==
  /\ ev.kind = "message"
  /\ Len(ev.invoked) >= 2
  /\ Behaviour(ev.invoked[1].handler) = "throws"
  /\ Behaviour(ev.invoked[2].handler) = "returns"
  /\ HasLog("error", "Error en handler")

\* C5: a message on a channel without a registered handler (no entry, or an
\* entry emptied by off) invokes no callback, raises nothing, and leaves the
\* state of the client as it was.
C5_NoHandlerDropped ==
  [][(ev'.kind = "message" /\ handlers[Logical(ev'.channel)].set = <<>>) =>
       /\ ev'.invoked = <<>>
       /\ ev'.outcome = "resolved"
       /\ UNCHANGED <<publisher, subscriber, isConnected, isSubscribed, handlers,
                      conns, calls>>]_vars

\* C5 happens: the entry of the channel exists and was emptied by off.
C5_Witness ==
  /\ ev.kind = "message"
  /\ handlers[Logical(ev.channel)] = [has |-> TRUE, set |-> <<>>]
  /\ ev.invoked = <<>>

ZeroHandlers == \A e \in EventTypes : handlers[e].set = <<>>

\* C6: subscribe() on a connected, not yet subscribed client with no handler
\* registered issues no transport command, does not raise and leaves the client
\* not subscribed.
C6_SubscribeZeroHandlers ==
  (/\ ev.kind = "call" /\ ev.op = "subscribe"
   /\ ev.pre.isConnected /\ ev.pre.subscriber # NULL /\ ~ev.pre.isSubscribed
   /\ ZeroHandlers) =>
    /\ ev.cmds = <<>>
    /\ ev.listened = NULL
    /\ ev.outcome = "resolved"
    /\ ~isSubscribed

\* C7: subscribe() on a subscribed client issues no transport command, installs
\* no listener and leaves isSubscribed as it was.
C7_SubscribeWhenSubscribed ==
  (ev.kind = "call" /\ ev.op = "subscribe" /\ ev.pre.isSubscribed) =>
    /\ ev.cmds = <<>>
    /\ ev.listened = NULL
    /\ ev.outcome # "pending"
    /\ isSubscribed

C7_Witness ==
  /\ ev.kind = "call" /\ ev.op = "subscribe" /\ ev.pre.isSubscribed
  /\ ev.outcome = "resolved"
  /\ HasLog("warn", "Ya suscrito a eventos")
  /\ conns[subscriber].listeners = 1

ParseErrorLogged == HasLog("error", "Error parseando mensaje")

\* C8 as stated: every message whose payload does not parse is logged and
\* dropped without invoking a handler.
C8_MalformedLogged ==
  (ev.kind = "message" /\ JSONparseThrows(ev.message)) =>
    /\ ParseErrorLogged
    /\ ev.invoked = <<>>

\* C8 amended: a payload that does not parse, on a channel with a registered
\* handler, is logged and dropped without invoking a handler (without a handler
\* it is dropped unparsed and unlogged); the listener returns normally, and a
\* well-formed message that the same connection gets next on that channel is
\* dispatched to every handler.
C8_MalformedDropped ==
  /\ (ev.kind = "message" /\ JSONparseThrows(ev.message)) =>
       /\ ev.invoked = <<>>
       /\ ev.outcome = "resolved"
       /\ (Registered # <<>> <=> ParseErrorLogged)
  /\ (ev.kind = "message" /\ ev.afterBad /\ ~JSONparseThrows(ev.message)) =>
       /\ InvokedHandlers = Range(Registered)
       /\ \A i \in 1..Len(ev.invoked) : ev.invoked[i].event = JSONparse(ev.message)

\* C8 happens: a well-formed message right after a malformed one, dispatched.
C8_Witness ==
  /\ ev.kind = "message" /\ ev.afterBad /\ ~JSONparseThrows(ev.message)
  /\ ev.invoked # <<>>

\* Reading a property an object does not have yields undefined.
Field(o, k) == IF k \in DOMAIN o.f THEN o.f[k] ELSE Undefined

\* Field-for-field equality of two values.
RECURSIVE SameFields(_, _)
SameFields(a, b) ==
  IF a.t = "object" /\ b.t = "object"
  THEN \A k \in DOMAIN a.f \cup DOMAIN b.f : SameFields(Field(a, k), Field(b, k))
  ELSE a = b

\* A value all of whose numbers are finite.
RECURSIVE Finite(_)
Finite(v) ==
  CASE v.t = "NaN" -> FALSE
    [] v.t = "object" -> \A k \in DOMAIN v.f : Finite(v.f[k])
    [] OTHER -> TRUE

\* The message of the last step is the one publishPosition sent, on its channel,
\* and position:new has a handler.
EchoDelivered ==
  /\ ev.kind = "message"
  /\ ev.sent # Undefined
  /\ ev.channel = prefixChannel(POSITION_NEW)
  /\ handlers[POSITION_NEW].set # <<>>

\* C9 as stated: every published position comes back to the handlers of
\* position:new as a record equal to it field for field.
C9_RoundTrip ==
  EchoDelivered =>
    /\ InvokedHandlers = Range(handlers[POSITION_NEW].set)
    /\ \A i \in 1..Len(ev.invoked) : SameFields(ev.invoked[i].event, ev.sent)

\* C9 amended: a published position whose numbers are all finite comes back to
\* every handler of position:new as a record equal to it field for field (a
\* property set to undefined counting as absent).
C9_RoundTripFinite ==
  (EchoDelivered /\ Finite(ev.sent)) =>
    /\ InvokedHandlers = Range(handlers[POSITION_NEW].set)
    /\ \A i \in 1..Len(ev.invoked) : SameFields(ev.invoked[i].event, ev.sent)

\* C9 happens: the position with nested metadata came back to a handler.
C9_Witness ==
  /\ EchoDelivered
  /\ ev.sent = PosFull
  /\ ev.invoked # <<>>
  /\ ev.invoked[1].event = PosFull

\* C10: for every prefix and every name, unprefixChannel(prefixChannel(name))
\* is the name.
C10_UnprefixPrefix == pf.stage = "unprefixed" => pf.text = pf.name

\* C10 happens: a non-empty prefix and a name that itself begins with it.
C10_Witness ==
  /\ pf.stage = "unprefixed"
  /\ keyPrefix # <<>>
  /\ startsWith(pf.name, keyPrefix)

\* How the receiving server reads a query string: pairs split at "&", name and
\* value split at the first "=", "+" read as a space and %XX as its character.
First(str, c) == CHOOSE i \in 1..Len(str) : str[i] = c /\ \A j \in 1..(i - 1) : str[j] # c
Has(str, c) == \E i \in 1..Len(str) : str[i] = c
RECURSIVE SplitOn(_, _)
SplitOn(str, c) ==
  IF ~Has(str, c) THEN <<str>>
  ELSE <<SubSeq(str, 1, First(str, c) - 1)>>
         \o SplitOn(SubSeq(str, First(str, c) + 1, Len(str)), c)
RECURSIVE FormDecode(_)
FormDecode(str) ==
  IF str = <<>> THEN <<>>
  ELSE IF Head(str) = "+" THEN <<" ">> \o FormDecode(Tail(str))
  ELSE IF Head(str) = "%" /\ Len(str) >= 3
       THEN <<CHOOSE c \in Specials : PercentCode(c) = SubSeq(str, 1, 3)>>
              \o FormDecode(SubSeq(str, 4, Len(str)))
  ELSE <<Head(str)>> \o FormDecode(Tail(str))
ParsePair(str) ==
  IF Has(str, "=")
  THEN Param(FormDecode(SubSeq(str, 1, First(str, "=") - 1)),
             FormDecode(SubSeq(str, First(str, "=") + 1, Len(str))))
  ELSE Param(FormDecode(str), <<>>)
ParseQuery(query) ==
  IF query = <<>> THEN <<>>
  ELSE LET pairs == SplitOn(query, "&") IN [i \in 1..Len(pairs) |-> ParsePair(pairs[i])]
QueryOf(url) == IF Has(url, "?") THEN SubSeq(url, First(url, "?") + 1, Len(url)) ELSE <<>>

\* The elements one after the other with a comma between neighbours.
RECURSIVE CommaSeparated(_)
CommaSeparated(items) ==
  IF Len(items) = 0 THEN <<>>
  ELSE IF Len(items) = 1 THEN items[1]
  ELSE CommaSeparated(SubSeq(items, 1, Len(items) - 1)) \o <<",">> \o items[Len(items)]

\* C14: for getTrips and getStops with a device-identifier list of two or more
\* elements, the query string of the URL has exactly one deviceId parameter,
\* and its value is the elements in input order with commas between them.
C14_DeviceIdJoined ==
  (pf.stage = "url" /\ pf.options.deviceId.array /\ Len(pf.options.deviceId.items) >= 2) =>
    LET params == ParseQuery(QueryOf(pf.text))
        at == {i \in 1..Len(params) : params[i].name = <<"deviceId">>}
    IN /\ Cardinality(at) = 1
       /\ \A i \in at : params[i].value = CommaSeparated(pf.options.deviceId.items)

\* C14 happens: getStops with three identifiers, one of which holds a comma
\* and one a space.
C14_Witness ==
  /\ pf.stage = "url" /\ pf.name = "getStops"
  /\ pf.options.deviceId.array
  /\ pf.options.deviceId.items = <<<<"V", " ", "1">>, <<"a", ",", "b">>, <<"a">>>>
  /\ pf.options.tenantId.given

\* C11 as stated: a client constructed without the http option exists, and each
\* of its HTTP operations rejects with the "not configured" error and sends no
\* request.
C11_HttpNotConfigured ==
  ~http.options.given =>
    /\ http.constructed = "ok"
    /\ (ev.kind = "call" /\ ev.op \in HttpOps) =>
         /\ ev.outcome = "rejected"
         /\ ev.error = NotConfigured
         /\ ev.cmds = <<>>

\* The last step ended an HTTP request whose response had a non-success status.
NonSuccessEnded ==
  /\ ev.op \in HttpOps
  /\ ev.kind \in {"resume", "timer"}
  /\ ev.outcome \in {"resolved", "rejected"}
  /\ ev.req.pc \in {"text", "json"}
  /\ ev.req.status \notin 200..299

\* C12 as stated: a response with a non-success status makes the call reject
\* with an error that carries the status and the body text.
C12_StatusError ==
  NonSuccessEnded =>
    /\ ev.outcome = "rejected"
    /\ \E errorText \in ErrorTexts :
         ev.error = StatusError(ev.req.status, StatusText(ev.req.status), errorText)

\* C12 amended: a response with a non-success status makes the call reject, no
\* parsed result is returned, and when the body text was read (before the
\* timeout and without a transport failure) the error carries the status and
\* that text.
C12_StatusErrorWhenBodyRead ==
  NonSuccessEnded =>
    /\ ev.outcome = "rejected"
    /\ ev.settled.await # "json"
    /\ (ev.settled.await = "text" /\ ev.settled.how = "resolved") =>
         ev.error = StatusError(ev.req.status, StatusText(ev.req.status), ev.settled.value)

\* C12 happens: a 503 whose body text was read.
C12_Witness ==
  /\ NonSuccessEnded
  /\ ev.req.status = 503
  /\ ev.settled = Settled("text", "resolved", "tracker not found")
  /\ ev.outcome = "rejected"

\* The timeout the client was configured with: the one given, or 10000 ms.
ConfiguredTimeout ==
  IF http.options.value.timeout.given THEN http.options.value.timeout.value ELSE 10000

\* C13: a request that has got no response when the configured timeout
\* (10000 ms when none is given) has elapsed is aborted, and the call rejects with
\* the timeout error that names that duration; no other step ends a request at
\* that time, and no other failure of a request raises the timeout error.
C13_Timeout ==
  /\ \A r \in Requests :
       http.reqs[r].pc # "idle" => http.reqs[r].elapsed <= ConfiguredTimeout
  /\ ev.kind = "timer" =>
       /\ ev.req.elapsed >= ConfiguredTimeout
       /\ ev.cmds = <<Cmd(NULL, "abort", CHOOSE r \in Requests : ev.cmds[1].arg = r)>>
       /\ ev.outcome = "rejected"
       /\ ev.error = Err("Error", [text |-> "Request timeout after ms", ms |-> ConfiguredTimeout])
  /\ (ev.op \in HttpOps /\ ev.kind = "resume" /\ ev.outcome # "pending") =>
       /\ ev.req.elapsed < ConfiguredTimeout
       /\ ev.error # Err("Error", [text |-> "Request timeout after ms", ms |-> ConfiguredTimeout])

\* C13 happens: no timeout was given, 10000 ms went by without a response.
C13_Witness ==
  /\ ev.kind = "timer"
  /\ ev.req.pc = "fetch"
  /\ ~http.options.value.timeout.given
  /\ ev.req.elapsed = 10000
  /\ isConnected

\* The host, port and db the client was configured with: the ones given, or
\* localhost, 6379 and 0.
ConfiguredRedis ==
  [host |-> IF redis.options.host.given THEN redis.options.host.value ELSE "localhost",
   port |-> IF redis.options.port.given THEN redis.options.port.value ELSE 6379,
   db |-> IF redis.options.db.given THEN redis.options.db.value ELSE 0]

\* C15: the client is connected from the step in which a connect() resolved
\* having opened both connections until the step in which a disconnect()
\* resolved.  health() on a client that is not connected reports
\* 'disconnected' at once; on a connected client it pings the publisher and
\* reports 'connected' when the ping succeeds and 'error' when it fails.  Every
\* report carries the configured host, port and db.
C15_Health ==
  /\ (isConnected # ev.pre.isConnected) =>
       /\ ev.op \in {"connect", "disconnect"}
       /\ ev.outcome = "resolved"
       /\ isConnected = (ev.op = "connect")
  /\ (ev.op = "disconnect" /\ ev.outcome = "resolved") => ~isConnected
  /\ (ev.op = "connect" /\ ev.outcome = "resolved") => isConnected
  /\ (ev.op = "health" /\ ev.kind = "call") =>
       IF ev.pre.isConnected
       THEN ev.outcome = "pending" /\ ev.cmds = <<Cmd(ev.pre.publisher, "ping", {})>>
       ELSE ev.outcome = "resolved" /\ ev.result.status = "disconnected" /\ ev.cmds = <<>>
  /\ (ev.op = "health" /\ ev.kind = "resume") =>
       /\ ev.pre.isConnected
       /\ ev.outcome = "resolved"
       /\ ev.settled.how = "resolved" => ev.result.status = "connected"
       /\ ev.settled.how = "rejected" => ev.result.status = "error"
  /\ (ev.op = "health" /\ ev.outcome = "resolved") => ev.result.redis = ConfiguredRedis

\* C15 happens: a ping that failed on a connected client configured with db 2.
C15_Witness ==
  /\ ev.op = "health" /\ ev.kind = "resume"
  /\ ev.result.status = "error"
  /\ ev.result.redis = [host |-> "localhost", port |-> 6379, db |-> 2]
  /\ isConnected

\* C16: subscribe() on a client that is not connected logs the not-connected
\* error and rejects only when throwOnError is true; with throwOnError false it
\* resolves, as the publish operations do.
C16_SubscribeNotConnected ==
  (/\ ev.op = "subscribe" /\ ev.kind = "call"
   /\ (ev.pre.subscriber = NULL \/ ~ev.pre.isConnected)) =>
    /\ ev.logs = NotConnectedLog
    /\ ev.outcome = IF throwOnError THEN "rejected" ELSE "resolved"

\* The transport command of a publish operation failed: the awaited promise
\* rejected, or the pipeline came back with the error of one of its commands.
TransportCommandFailed ==
  /\ ev.op \in PublishOps /\ ev.kind = "resume"
  /\ ev.pre.isConnected
  /\ \/ ev.settled.how = "rejected"
     \/ ev.settled.how = "resolved" /\ ev.settled.value.failed # {}

\* C17: when the transport command of a single or a batch publish fails on a
\* connected client the error is logged; the call resolves when throwOnError
\* is false and rejects with the transport's error when it is true; a failed
\* batch does not log that positions were published.
C17_PublishTransportFailure ==
  TransportCommandFailed =>
    /\ Log("error", "Error publicando") \in Range(ev.logs)
    /\ ev.outcome = IF throwOnError THEN "rejected" ELSE "resolved"
    /\ ev.outcome = "rejected" => ev.error = TransportError
    /\ ev.op = "publishPositions" => Log("debug", "publicada") \notin Range(ev.logs)

\* C18: when opening a transport connection fails inside connect() the error
\* is logged, and connect() rejects only when throwOnError is true; with
\* throwOnError false it resolves.
C18_ConnectFailure ==
  (ev.op = "connect" /\ ev.kind = "resume" /\ ev.settled.how = "rejected") =>
    /\ ev.logs = <<Log("error", "Error conectando a Redis")>>
    /\ ev.outcome = IF throwOnError THEN "rejected" ELSE "resolved"

\* C19: with forRoot and with forRootAsync, the step that hands the service to
\* the consumers finds it connected, both connections open, after a connect()
\* that resolved; a connect() that failed to open a connection leaves the
\* container without an instance, and it never gets one.
C19_Provided ==
  /\ [](/\ (ev.op = "useFactory" /\ mod.stage = "provided") =>
             /\ isConnected
             /\ publisher # NULL /\ conns[publisher].status = "ready"
             /\ subscriber # NULL /\ conns[subscriber].status = "ready"
        /\ (ev.op = "connect" /\ ev.settled.how = "rejected") => mod.stage = "failed"
        /\ (InUse \/ mod.stage = "connected") => isConnected)
  /\ [][mod.stage = "failed" => mod'.stage = "failed"]_vars

\* C19 happens: a forRootAsync container handed out its service.
C19_Witness ==
  /\ mod.mode = "forRootAsync"
  /\ ev.op = "useFactory" /\ mod.stage = "provided"
  /\ isConnected

\* C20: at teardown the adapter calls disconnect() once, and when that call
\* has finished the service is neither connected nor subscribed; the
\* unsubscribe() of a consumer's teardown hook, before or after it, does not
\* reject.
C20_Teardown ==
  /\ mod.destroyed <= 1
  /\ (mod.destroyed = 1 /\ ev.op = "disconnect" /\ ev.outcome \in {"resolved", "rejected"}) =>
       ~isConnected /\ ~isSubscribed
  /\ (mod.consumerDestroyed = 1 /\ ev.op = "unsubscribe") => ev.outcome # "rejected"

\* C21: when the container is ready, every method that carries an event
\* decorator is registered on the service as a handler of its event type, and
\* the service subscribes.
C21_DecoratedRegistered ==
  mod.ready =>
    /\ \A i \in 1..Len(getTriperoEventHandlers(ListenerMetadata)) :
         LET entry == getTriperoEventHandlers(ListenerMetadata)[i]
         IN entry.methodName \in Range(handlers[entry.eventType].set)
    /\ ev.op = "ready" =>
         \/ isSubscribed
         \/ \E c \in Slots : calls[c].op = "subscribe"

\* The prefix the client was configured with: the one given, or 'tripero:'.
ConfiguredPrefix == IF pf.option.given THEN pf.option.value ELSE <<"tripero:">>

\* The logical channel an operation publishes on.
LogicalChannelOf(op) ==
  IF op = "publishIgnitionEvent" THEN <<"ignition:changed">> ELSE <<"position:new">>

\* The channel names a command hands to the transport.
ChannelsOf(cmd) ==
  CASE cmd.cmd = "publish" -> {cmd.arg.channel}
    [] cmd.cmd = "exec" -> {cmd.arg[i].channel : i \in 1..Len(cmd.arg)}
    [] cmd.cmd = "subscribe" -> cmd.arg
    [] OTHER -> {}

C23_BatchGrouped ==
  ev.op = "publishPositions" =>
    IF ev.kind = "call" /\ ev.outcome = "pending"
    THEN /\ Len(ev.cmds) = 1
         /\ ev.cmds[1].cmd = "exec"
         /\ ev.cmds[1].conn = ev.pre.publisher
         /\ \E ps \in Batches :
              /\ Len(ev.cmds[1].arg) = Len(ps)
              /\ \A i \in 1..Len(ps) :
                   ev.cmds[1].arg[i] =
                     [channel |-> keyPrefix \o <<"position:new">>,
                      message |-> JSONstringify(ps[i])]
    ELSE ev.cmds = <<>>

\* C23 happens: a batch of two positions went out as one pipeline.
C23_Witness ==
  /\ ev.op = "publishPositions" /\ ev.kind = "call"
  /\ ev.cmds # <<>>
  /\ Len(ev.cmds[1].arg) = 2
  /\ ev.cmds[1].arg[1].message = JSONstringify(PosFull)

\* The client is subscribed: it has a subscriber connection and its
\* subscriptions on it.
WasSubscribed == ev.pre.subscriber # NULL /\ ev.pre.isSubscribed

ChannelsWithHandlers == {keyPrefix \o e : e \in {t \in EventTypes : handlers[t].set # <<>>}}

\* C25: the transport subscribe of subscribe() names exactly the prefixed
\* channels that have at least one handler at the time of the call, and when
\* none has, no transport subscribe is made.
C25_SubscribedChannels ==
  (/\ ev.op = "subscribe" /\ ev.kind = "call"
   /\ ev.pre.isConnected /\ ev.pre.subscriber # NULL /\ ~ev.pre.isSubscribed) =>
    IF ChannelsWithHandlers = {}
    THEN ev.cmds = <<>>
    ELSE ev.cmds = <<Cmd(ev.pre.subscriber, "subscribe", ChannelsWithHandlers)>>

\* How many times a delivery invoked a handler.
Invocations(h) == Cardinality({i \in 1..Len(ev.invoked) : ev.invoked[i].handler = h})

\* C26: the current subscriber connection never carries more than one message
\* listener, and a message it delivers that parses invokes every handler of
\* its channel exactly once.
C26_SingleListener ==
  /\ subscriber # NULL => conns[subscriber].listeners <= 1
  /\ (ev.kind = "message" /\ ev.conn = subscriber /\ ~JSONparseThrows(ev.message)) =>
       \A h \in Range(handlersFor(unprefixChannel(ev.channel))) : Invocations(h) = 1

----------------------------------------------------------------------------
(* Dispatch with handlers that change the registrations or return promises *)

\* The handlers of the dispatch specification, all for trip:started.
DispatchHandlers == {"h1", "h3", "h4", "h5"}

\* The handler the re-entrant callbacks register and remove.
Target == "h1"

\* Position of x in s, 0 when it is not there.
IndexOf(s, x) == IF x \in Range(s) THEN CHOOSE i \in 1..Len(s) : s[i] = x ELSE 0

\* What the body of h does to the Set it is dispatched from: this.on(channel,
\* Target) adds to the end unless present, this.off(channel, Target) deletes.
HandlerEffect(h, set) ==
  CASE Behaviour(h) = "registers" ->
         IF Target \in Range(set) THEN set ELSE Append(set, Target)
    [] Behaviour(h) = "removes" -> Without(set, Target)
    [] OTHER -> set

\* `for (const handler of handlers)` over the Set itself: the iterator of a Set
\* walks the entries in insertion order and is live, so an entry appended while
\* the loop runs is visited and an entry deleted before its turn is not.  k is
\* the number of entries the iterator has passed.  The result of an async
\* handler is a promise, left pending with a catch attached.
RECURSIVE Iterate(_, _, _, _)
Iterate(set, k, event, channel) ==
  IF k >= Len(set)
  THEN [invoked |-> <<>>, logs |-> <<>>, set |-> set, promises |-> <<>>]
  ELSE LET h == set[k + 1]
           after == HandlerEffect(h, set)
           passed == IF Len(after) < Len(set) /\ IndexOf(set, Target) <= k + 1
                     THEN k ELSE k + 1
           rest == Iterate(after, passed, event, channel)
       IN [invoked |-> <<[handler |-> h, event |-> event]>> \o rest.invoked,
           logs |-> (CASE Behaviour(h) = "throws" -> <<Log("error", "Error en handler")>>
                       [] Behaviour(h) = "registers" -> <<Log("debug", "Handler registrado")>>
                       [] OTHER -> <<>>) \o rest.logs,
           set |-> rest.set,
           promises |-> (IF Behaviour(h) = "async" THEN <<h>> ELSE <<>>) \o rest.promises]

\* handleMessage when the handlers may call on and off: hs is this.handlers
\* when the listener is called, the result carries this.handlers afterwards.
handleMessageLive(hs, prefixedChannel, message) ==
  LET channel == unprefixChannel(prefixedChannel)
      nothing == [invoked |-> <<>>, logs |-> <<>>, handlers |-> hs, promises |-> <<>>]
  IN IF channel \notin DOMAIN hs \/ ~hs[channel].has \/ hs[channel].set = <<>>
     THEN nothing
     ELSE IF JSONparseThrows(message)
     THEN [nothing EXCEPT !.logs = <<Log("error", "Error parseando mensaje")>>]
     ELSE LET r == Iterate(hs[channel].set, 0, JSONparse(message), channel)
          IN [invoked |-> r.invoked, logs |-> r.logs,
              handlers |-> [hs EXCEPT ![channel].set = r.set],
              promises |-> r.promises]

\* Every listener of the connection runs handleMessage, one after the other.
RECURSIVE EmitLive(_, _, _, _)
EmitLive(n, hs, prefixedChannel, message) ==
  IF n = 0 THEN [invoked |-> <<>>, logs |-> <<>>, handlers |-> hs, promises |-> <<>>]
  ELSE LET one == handleMessageLive(hs, prefixedChannel, message)
           rest == EmitLive(n - 1, one.handlers, prefixedChannel, message)
       IN [invoked |-> one.invoked \o rest.invoked, logs |-> one.logs \o rest.logs,
           handlers |-> rest.handlers, promises |-> one.promises \o rest.promises]

\* The promises the handlers returned, each suspended until it settles.
RECURSIVE Pending(_, _)
Pending(cs, promises) ==
  IF promises = <<>> THEN cs
  ELSE LET c == CHOOSE c \in Slots :
                  cs[c].op = "idle" /\ \A d \in Slots : cs[d].op = "idle" => c <= d
       IN Pending([cs EXCEPT ![c] = Call("handler", "pending", NULL, {Head(promises)})],
                  Tail(promises))

PendingResults == {c \in Slots : calls[c].op = "handler"}
FreeSlots == {c \in Slots : calls[c].op = "idle"}

\* The transport emits 'message' on a connection whose handlers may be any of
\* the behaviours above.  The whole loop runs before anything else does.
DeliverLive(conn, prefixedChannel, message) ==
  /\ conns[conn].status = "ready"
  /\ prefixedChannel \in conns[conn].subs
  /\ conns[conn].listeners > 0
  /\ LET r == EmitLive(conns[conn].listeners, handlers, prefixedChannel, message)
     IN /\ Len(r.promises) <= Cardinality(FreeSlots)
        /\ handlers' = r.handlers
        /\ calls' = Pending(calls, r.promises)
        /\ ev' = [Event("message", "message", "resolved", r.logs, <<>>)
                  EXCEPT !.conn = conn, !.channel = prefixedChannel,
                         !.message = message, !.invoked = r.invoked,
                         !.began = handlersFor(unprefixChannel(prefixedChannel)),
                         !.afterBad = ev.op = "handler" /\ ev.settled.how = "rejected"]
  /\ UNCHANGED <<publisher, subscriber, isConnected, isSubscribed, conns, wire, config>>

\* The promise of an async handler resolves: nothing is attached to that.
HandlerResolved(c) ==
  /\ calls[c].op = "handler"
  /\ calls' = [calls EXCEPT ![c] = NoCall]
  /\ ev' = [Event("handler", "resume", "resolved", <<>>, <<>>)
            EXCEPT !.settled = Settled("handler", "resolved", Undefined)]
  /\ UNCHANGED <<publisher, subscriber, isConnected, isSubscribed, handlers,
                 conns, wire, config>>

\* A rejection nobody catches.
UnhandledRejection == [outcome |-> "rejected", logs |-> <<>>]

\* `result.catch((err) => this.logger.error(...))`
resultCatch == [outcome |-> "resolved", logs |-> <<Log("error", "Error en handler async")>>]

\* The promise of an async handler rejects.
HandlerRejected(c) ==
  /\ calls[c].op = "handler"
  /\ calls' = [calls EXCEPT ![c] = NoCall]
  /\ ev' = [Event("handler", "resume", resultCatch.outcome, resultCatch.logs, <<>>)
            EXCEPT !.settled = Settled("handler", "rejected", Err("Error", [text |-> "handler"]))]
  /\ UNCHANGED <<publisher, subscriber, isConnected, isSubscribed, handlers,
                 conns, wire, config>>

\* The caller awaited every call it made; results of handlers may be pending.
Awaited == \A c \in Slots : calls[c].op \in {"idle", "handler"}

DispatchInit ==
  /\ throwOnError = ResolveThrowOnError(Omitted)
  /\ keyPrefix = ResolveKeyPrefix(Omitted)
  /\ pf = [stage |-> "idle", name |-> <<>>, text |-> <<>>]
  /\ PlainInit
  /\ ClientInit

DispatchNext ==
  \/ Awaited /\ Connect
  \/ Awaited /\ \E h \in DispatchHandlers : On(TRIP_STARTED, h)
  \/ Awaited /\ \E h \in DispatchHandlers : Off(TRIP_STARTED, h)
  \/ Awaited /\ Subscribe
  \/ \E c \in Slots : ConnectResume(c)
  \/ \E c \in Slots : SubscribeDone(c)
  \/ \E c \in Slots : SubscribeFailed(c)
  \/ \E i \in ConnIds, m \in RemoteMessages :
       DeliverLive(i, prefixChannel(TRIP_STARTED), m)
  \/ \E c \in Slots : HandlerResolved(c)
  \/ \E c \in Slots : HandlerRejected(c)

DispatchSpec == DispatchInit /\ [][DispatchNext]_vars

\* C27: when a handler registers or removes handlers of the event type being
\* dispatched, the handlers invoked for that message are exactly those that
\* were registered when the dispatch began, in that order.
C27_DispatchSnapshot ==
  (/\ ev.kind = "message"
   /\ ~JSONparseThrows(ev.message)
   /\ conns[ev.conn].listeners = 1) =>
    [i \in 1..Len(ev.invoked) |-> ev.invoked[i].handler] = ev.began

\* The handlers a dispatch invoked, in the order it invoked them.
InvokedInOrder == [i \in 1..Len(ev.invoked) |-> ev.invoked[i].handler]

\* The async handlers among them: each returned a promise.
AsyncInvoked == {i \in 1..Len(ev.invoked) : Behaviour(ev.invoked[i].handler) = "async"}

\* No handler registered when the dispatch began calls on or off.
PlainDispatch == \A h \in Range(ev.began) : Behaviour(h) \notin {"registers", "removes"}

\* C28: a dispatch invokes the handlers in registration order and waits for
\* none of them: the dispatch step ends with the result of every async handler
\* it invoked still pending, and no pending result settles during it.  A result
\* that rejects is logged as an error, raises nothing, and changes neither the
\* handlers nor the connections, so the next message is dispatched as before.
C28_DispatchOrder ==
  /\ [](/\ (/\ ev.kind = "message"
            /\ ~JSONparseThrows(ev.message)
            /\ conns[ev.conn].listeners = 1
            /\ PlainDispatch) => InvokedInOrder = ev.began
        /\ (ev.op = "handler" /\ ev.settled.how = "rejected") =>
             /\ ev.outcome = "resolved"
             /\ ev.logs = <<Log("error", "Error en handler async")>>)
  /\ [][/\ ev'.kind = "message" =>
            /\ PendingResults \subseteq PendingResults'
            /\ Cardinality(PendingResults') =
                 Cardinality(PendingResults) + Cardinality(AsyncInvoked')
        /\ ev'.op = "handler" =>
            UNCHANGED <<handlers, conns, publisher, subscriber, isConnected, isSubscribed>>]_vars

\* A message is dispatched right after the result of a handler rejected: two
\* handlers run in registration order, the async one not last, its new result
\* pending.
C28_Witness ==
  /\ ev.kind = "message"
  /\ ev.afterBad
  /\ conns[ev.conn].listeners = 1
  /\ PlainDispatch
  /\ Len(ev.began) = 2
  /\ InvokedInOrder = ev.began
  /\ Behaviour(ev.began[1]) = "async"
  /\ PendingResults # {}

\* The caller makes publish calls without awaiting them: up to MaxCalls are
\* suspended at once, while the client connects and disconnects.
OrderNext ==
  \/ Awaited /\ Connect
  \/ Awaited /\ Disconnect
  \/ PublishPosition(PosFull)
  \/ PublishIgnitionEvent(IgnitionOn)
  \/ \E c \in Slots : ConnectResume(c)
  \/ \E c \in Slots : DisconnectResume(c)
  \/ \E c \in Slots : PublishDone(c)
  \/ \E c \in Slots : PublishFailed(c)

OrderSpec == Init /\ [][OrderNext]_vars

\* The command publish(channel, data) hands to the publisher connection.
PublishCommand(logical, data) ==
  <<Cmd(publisher, "publish",
        [channel |-> prefixChannel(logical), message |-> Serialize(data)])>>

\* C29: a call of publishPosition or publishIgnitionEvent on a connected client
\* hands its publish command to the publisher connection in the step of the
\* call itself, whatever other calls are still suspended, and the continuation
\* of a publish hands over nothing: the commands reach the publisher connection
\* in the order of the calls.
C29_PublishOrder ==
  [][/\ (PublishPosition(PosFull) /\ ~NotConnected) =>
          ev'.cmds = PublishCommand(POSITION_NEW, PosFull)
     /\ (PublishIgnitionEvent(IgnitionOn) /\ ~NotConnected) =>
          ev'.cmds = PublishCommand(IGNITION_CHANGED, IgnitionOn)
     /\ (ev'.op \in {"publishPosition", "publishIgnitionEvent"} /\ ev'.kind = "call"
          /\ ~NotConnected) =>
          /\ Len(ev'.cmds) = 1
          /\ ev'.cmds[1].cmd = "publish"
          /\ ev'.cmds[1].conn = publisher
     /\ (ev'.op \in {"publishPosition", "publishIgnitionEvent"} /\ ev'.kind = "resume") =>
          ev'.cmds = <<>>]_vars

\* publishIgnitionEvent is called, and hands over its command, while a call of
\* publishPosition that was not awaited is still suspended.
C29_Witness ==
  /\ ev.op = "publishIgnitionEvent"
  /\ ev.kind = "call"
  /\ ev.cmds = PublishCommand(IGNITION_CHANGED, IgnitionOn)
  /\ \E c \in Slots : calls[c].op = "publishPosition"

\* C30: the publisher and the subscriber the client holds are never the same
\* connection, and a connect that succeeded leaves it holding both.  Every
\* publish, pipeline and ping command goes to the publisher and never to the
\* subscriber; every subscribe and unsubscribe command and the message listener
\* go to the subscriber and never to the publisher, which has no listener and
\* no subscription.
C30_SeparateConnections ==
  /\ (publisher # NULL \/ subscriber # NULL) => publisher # subscriber
  /\ (ev.op = "connect" /\ ev.kind = "resume" /\ ev.outcome = "resolved") =>
       publisher # NULL /\ subscriber # NULL
  /\ \A i \in 1..Len(ev.cmds) :
       /\ ev.cmds[i].cmd \in {"publish", "exec", "ping"} =>
            ev.cmds[i].conn = ev.pre.publisher /\ ev.cmds[i].conn # ev.pre.subscriber
       /\ ev.cmds[i].cmd \in {"subscribe", "unsubscribe"} =>
            ev.cmds[i].conn = ev.pre.subscriber /\ ev.cmds[i].conn # ev.pre.publisher
  /\ ev.listened # NULL => ev.listened = ev.pre.subscriber /\ ev.listened # ev.pre.publisher
  /\ publisher # NULL => conns[publisher].listeners = 0 /\ conns[publisher].subs = {}

\* A connected client subscribes: the command and the listener go to the
\* subscriber, the publisher is another connection.
C30_Witness ==
  /\ ev.op = "subscribe" /\ ev.cmds # <<>>
  /\ ev.listened = subscriber
  /\ publisher # NULL /\ subscriber # NULL /\ publisher # subscriber
  /\ conns[subscriber].listeners = 1
  /\ conns[publisher].listeners = 0

\* The commands that use a connection: everything but connect and quit.
UseCommands == {"publish", "exec", "ping", "subscribe", "unsubscribe"}

\* disconnect has issued quit on the connection and waits for the answer.
QuitIssued(i) == \E c \in Slots : calls[c].op = "disconnect" /\ calls[c].conn = i

\* C31: whatever calls are suspended, a publish, pipeline, ping, subscribe or
\* unsubscribe command is handed only to a connection whose connect has
\* completed and on which disconnect has not issued quit.
C31_UsedWhileOpen ==
  [][\A i \in 1..Len(ev'.cmds) :
       ev'.cmds[i].cmd \in UseCommands =>
         /\ conns[ev'.cmds[i].conn].status = "ready"
         /\ ~QuitIssued(ev'.cmds[i].conn)]_vars

\* The call found the client not connected: the guard of publish and of
\* publishPositions, or the guard of subscribe.
CalledNotConnected ==
  /\ ev.kind = "call"
  /\ \/ /\ ev.op \in PublishOps
        /\ ev.pre.publisher = NULL \/ ~ev.pre.isConnected
     \/ /\ ev.op = "subscribe"
        /\ ev.pre.subscriber = NULL \/ ~ev.pre.isConnected

\* C32: a publish operation or a subscribe called on a client that is not
\* connected rejects at once, whatever throwOnError is.
C32_NotConnectedRaises ==
  CalledNotConnected => ev.outcome = "rejected"

\* C33: in every state a subscribed client is connected, and a connected
\* client holds both its publisher and its subscriber connection.
C33_FlagsConsistent ==
  /\ isSubscribed => isConnected
  /\ isConnected => publisher # NULL /\ subscriber # NULL

\* The calls of connect that are suspended: each has opened a connection.
ConnectsInProgress == {c \in Slots : calls[c].op = "connect"}

\* The connections a step opens with `new Redis(...)` and connect().
Opened(e) == {e.cmds[i].conn : i \in {j \in 1..Len(e.cmds) : e.cmds[j].cmd = "connect"}}

\* C34: of two overlapping calls of connect only one opens connections: a
\* call opens a publisher only when no other call of connect is in progress,
\* and a continuation opens a subscriber only when its call is the only one.
C34_OverlappingConnect ==
  [][(ev'.op = "connect" /\ Opened(ev') # {}) =>
       Cardinality(ConnectsInProgress) = IF ev'.kind = "call" THEN 0 ELSE 1]_vars

\* The client holds connection i before the step and not after it.
Dropped(i) ==
  /\ publisher = i \/ subscriber = i
  /\ publisher' # i /\ subscriber' # i

\* The step is the continuation of disconnect after quit() on i was answered.
QuitAnswered(i) ==
  /\ ev'.op = "disconnect" /\ ev'.kind = "resume"
  /\ \E c \in Slots : /\ calls[c].op = "disconnect"
                       /\ calls[c].conn = i
                       /\ calls'[c] # calls[c]

\* C35: an open connection the client holds stays held until disconnect has
\* closed it with quit; no step replaces or drops it otherwise, also not a
\* connect() that follows a connect() that failed half way.
C35_NoConnectionLeak ==
  [][\A i \in ConnIds :
       (Dropped(i) /\ conns[i].status = "ready") => QuitAnswered(i)]_vars

\* C36: when subscribe() succeeds the subscriber connection is subscribed to
\* the channels of the event types that have a handler at that moment and to
\* no other, so that a handler registered later for another event type gets no
\* message; on() and off() leave the subscriptions of every connection as they
\* are, and so does a subscribe() on a client that is subscribed already.
C36_SubscriptionsFixed ==
  [][/\ ev'.op \in {"on", "off"} => conns' = conns
     /\ (ev'.op = "subscribe" /\ ev'.kind = "call" /\ isSubscribed) =>
          conns' = conns /\ ev'.cmds = <<>>
     /\ (ev'.op = "subscribe" /\ ev'.kind = "resume" /\ ev'.outcome = "resolved") =>
          conns'[subscriber'].subs = ChannelsWithHandlers']_vars

----------------------------------------------------------------------------
(* A client that is connected, disconnected and connected again *)

\* Every operation of the client on its transport, each awaited, with one
\* handler for trip:started and the messages of the remote service.
ReconnectNext ==
  \/ Idle /\ Connect
  \/ Idle /\ Disconnect
  \/ Idle /\ PublishPosition(PosFull)
  \/ Idle /\ PublishIgnitionEvent(IgnitionOn)
  \/ Idle /\ \E ps \in Batches : PublishPositions(ps)
  \/ Idle /\ On(TRIP_STARTED, "h1")
  \/ Idle /\ Off(TRIP_STARTED, "h1")
  \/ Idle /\ Subscribe
  \/ Idle /\ Unsubscribe
  \/ Idle /\ Health
  \/ \E c \in Slots : ConnectResume(c)
  \/ \E c \in Slots : DisconnectResume(c)
  \/ \E c \in Slots : PublishResume(c)
  \/ \E c \in Slots : SubscriptionResume(c)
  \/ \E c \in Slots : HealthResume(c)
  \/ \E i \in ConnIds, m \in RemoteMessages :
       DeliverRemote(i, prefixChannel(TRIP_STARTED), m)

ReconnectSpec == DispatchInit /\ [][ReconnectNext]_vars

\* C37: no operation but on and off changes the registered handlers.  A
\* disconnect that completed leaves the client as a new client with the same
\* handlers: no connection, not connected, not subscribed; and every message
\* that reaches the subscriber of a client, connected for the first time or
\* again, is handed to each registered handler of its channel.
C37_HandlersKept ==
  /\ [][ev'.op \notin {"on", "off"} => handlers' = handlers]_vars
  /\ []((ev.op = "disconnect" /\ ev.outcome = "resolved") =>
          /\ publisher = NULL /\ subscriber = NULL
          /\ ~isConnected /\ ~isSubscribed)
  /\ []((ev.kind = "message" /\ ev.conn = subscriber /\ ~JSONparseThrows(ev.message)) =>
          {ev.invoked[i].handler : i \in 1..Len(ev.invoked)} =
            Range(handlersFor(unprefixChannel(ev.channel))))

\* A disconnect has completed and the handler registered before it is still
\* registered.
C37_Witness ==
  /\ ev.op = "disconnect" /\ ev.kind = "resume" /\ ev.outcome = "resolved"
  /\ handlers[TRIP_STARTED].set = <<"h1">>

\* C38: a handler is in the Set of its event type at most once.  Registering
\* it again changes nothing, so it keeps the position of its first
\* registration; one off() removes it; and a message that one listener
\* dispatches invokes the registered handlers once each, in that order.
C38_RegisteredOnce ==
  /\ [](\A e \in EventTypes : Cardinality(Range(handlers[e].set)) = Len(handlers[e].set))
  /\ [][\A h \in DispatchHandlers :
         /\ (On(TRIP_STARTED, h) /\ h \in Range(handlers[TRIP_STARTED].set)) =>
              handlers' = handlers
         /\ Off(TRIP_STARTED, h) => h \notin Range(handlers'[TRIP_STARTED].set)]_vars
  /\ []((/\ ev.kind = "message"
          /\ ~JSONparseThrows(ev.message)
          /\ conns[ev.conn].listeners = 1
          /\ PlainDispatch) =>
          \A h \in Range(ev.began) : Invocations(h) = 1)

\* on() was called for a handler that was registered already, with another
\* handler registered after it: the Set is what it was when the call began.
C38_Witness ==
  /\ ev.op = "on"
  /\ Len(ev.began) >= 2
  /\ ev.began = handlers[TRIP_STARTED].set

----------------------------------------------------------------------------
(* HTTP requests in flight at the same time *)

\* The caller starts requests without awaiting them: up to MaxRequests are in
\* flight, each with its own clock, timer and abort controller.
ParallelHttpNext ==
  \/ \E t \in TrackerIds : GetTrackerStatus(t)
  \/ HealthHttp
  \/ \E r \in Requests : Tick(r)
  \/ \E r \in Requests : TimerFires(r)
  \/ \E r \in Requests, status \in Statuses : FetchResponds(r, status)
  \/ \E r \in Requests : FetchFails(r)
  \/ \E r \in Requests, text \in ErrorTexts : TextResolves(r, text)
  \/ \E r \in Requests : JsonResolves(r)
  \/ \E r \in Requests, error \in {NetworkError, SyntaxError} : BodyFails(r, error)

ParallelHttpSpec == DispatchInit /\ [][ParallelHttpNext]_vars

\* The step ends request r and touches no other request.
EndsOnly(r) ==
  /\ http.reqs[r].pc # "idle"
  /\ http.reqs[r].armed
  /\ http'.reqs = [http.reqs EXCEPT ![r] = NoRequest]

\* C39: a request in flight has its timer armed, a request that has finished
\* has none.  Whatever ends a request (its body, a status error, a network
\* error, its timer) ends that request alone, and the timer that goes off
\* aborts the request it was armed for, whose own time is up, and no other.
C39_OwnTimer ==
  /\ [](\A r \in Requests : http.reqs[r].armed <=> http.reqs[r].pc # "idle")
  /\ [][/\ (ev'.op \in HttpOps /\ ev'.kind \in {"resume", "timer"}
             /\ ev'.outcome \in {"resolved", "rejected"}) =>
              \E r \in Requests : EndsOnly(r)
        /\ ev'.kind = "timer" =>
              \E r \in Requests : /\ ev'.cmds = <<Cmd(NULL, "abort", r)>>
                                   /\ http.reqs[r].elapsed >= Timeout
                                   /\ EndsOnly(r)]_vars

\* The timer of one request has gone off while another request, started later
\* and with time left, stays in flight with its timer armed.
C39_Witness ==
  /\ ev.kind = "timer"
  /\ \E q \in Requests : /\ http.reqs[q].pc # "idle"
                          /\ http.reqs[q].armed
                          /\ http.reqs[q].elapsed < Timeout

====
